---------------------------- MODULE Spec2Model ----------------------------
(***************************************************************************)
(* Model of the comment toggler of the Custom Comments plugin              *)
(* (src/src/main.ts, the CommentFormatPlugin class that carries            *)
(* _cleanupGuard, lines 559-1428).                                         *)
(*                                                                         *)
(* A string is a sequence of one-character strings; "\n" is the line       *)
(* break.  Positions are zero-based {line, ch} records as in the editor    *)
(* API; a document is the sequence of its lines.                           *)
(***************************************************************************)
EXTENDS Integers, Sequences, FiniteSets, TLC

(***************************************************************************)
(* Bounds of the model.                                                    *)
(***************************************************************************)
\* longest one-line document the model starts from
MaxLineLen == 4
\* most characters (line break aside) of a two-line document the model starts from
MaxTwoLineLen == 3
\* number of toggle commands run in a row
MaxToggles == 2
\* longest string handed to a string utility
MaxTextLen == 5
\* number of times a string utility is applied in a row
MaxCalls == 2
\* most pieces (markers, words, blanks) of a text handed to the comment detection
MaxPieces == 3
\* number of change events the user's own typing raises
MaxEvents == 1
\* longest line of the one-line documents the change listener and the marker derivation are run on
MaxListenerLineLen == 3
\* most additional marker sets in the settings
MaxMarkerSets == 2
\* number of changes made in the settings tab or by the reload command
MaxSettingsChanges == 3

(***************************************************************************)
(* JavaScript string primitives used by the plugin.                        *)
(***************************************************************************)
NL == "\n"
SP == " "
TAB == "\t"
\* the characters of the class \s (and of trim) that the model writes strings in
Whitespace == {SP, NL, TAB}
WordChars == {"a", "b"}

Min(a, b) == IF a < b THEN a ELSE b
Max(a, b) == IF a > b THEN a ELSE b

Least(S) == CHOOSE i \in S : \A j \in S : i <= j
Greatest(S) == CHOOSE i \in S : \A j \in S : i >= j

\* String.prototype.slice(a, b): negative indices count from the end, both clamped.
Slice(s, a, b) ==
    LET n  == Len(s)
        lo == IF a < 0 THEN Max(n + a, 0) ELSE Min(a, n)
        hi == IF b < 0 THEN Max(n + b, 0) ELSE Min(b, n)
    IN  IF hi <= lo THEN <<>> ELSE SubSeq(s, lo + 1, hi)

\* String.prototype.slice(a)
SliceFrom(s, a) == Slice(s, a, Len(s))

\* String.prototype.substr(idx, n) for idx >= 0: at most n characters from idx.
Substr(s, idx, n) == Slice(s, idx, Min(idx + n, Len(s)))

StartsWith(s, p) == Len(p) <= Len(s) /\ SubSeq(s, 1, Len(p)) = p
EndsWith(s, p) == Len(p) <= Len(s) /\ SubSeq(s, Len(s) - Len(p) + 1, Len(s)) = p

\* String.prototype.indexOf(p, from): from is clamped to [0, length]; -1 when absent.
IndexOf(s, p, from) ==
    LET First(hits) == IF hits = {} THEN -1 ELSE Least(hits)
    IN  First({i \in Max(0, Min(from, Len(s)))..(Len(s) - Len(p)) :
                  SubSeq(s, i + 1, i + Len(p)) = p})

Includes(s, p) == IndexOf(s, p, 0) # -1

\* String.prototype.trim()
Trim(s) ==
    LET Kept(keep) == IF keep = {} THEN <<>> ELSE SubSeq(s, Least(keep), Greatest(keep))
    IN  Kept({i \in 1..Len(s) : s[i] \notin Whitespace})

\* /^\s*$/.test(s)
IsBlank(s) == \A i \in 1..Len(s) : s[i] \in Whitespace

\* Array.prototype.join('\n')
RECURSIVE Join(_)
Join(lines) ==
    IF Len(lines) = 0 THEN <<>>
    ELSE IF Len(lines) = 1 THEN lines[1]
    ELSE lines[1] \o <<NL>> \o Join(Tail(lines))

\* String.prototype.split('\n')
RECURSIVE Split(_)
Split(s) ==
    LET At(i) == IF i = -1 THEN <<s>> ELSE <<Slice(s, 0, i)>> \o Split(SliceFrom(s, i + 1))
    IN  At(IndexOf(s, <<NL>>, 0))


(***************************************************************************)
(* The host editor (the obsidian Editor the plugin is handed).             *)
(***************************************************************************)
Pos(l, c) == [line |-> l, ch |-> c]
\* null for a position
NoPos == [line |-> -1, ch |-> -1]

PosLE(p, q) == p.line < q.line \/ (p.line = q.line /\ p.ch <= q.ch)

\* editor.getLine(l)
GetLine(doc, l) == doc[l + 1]

\* offset of the first character of line l in editor.getValue()
RECURSIVE LineStart(_, _)
LineStart(doc, l) == IF l = 0 THEN 0 ELSE LineStart(doc, l - 1) + Len(doc[l]) + 1

\* the editor clips a position it is given to the document
ClipPos(doc, p) ==
    LET l == Max(0, Min(p.line, Len(doc) - 1))
    IN  IF p.line < 0 THEN Pos(0, 0)
        ELSE IF p.line > Len(doc) - 1 THEN Pos(l, Len(doc[l + 1]))
        ELSE Pos(l, Max(0, Min(p.ch, Len(doc[l + 1]))))

PosToOffset(doc, p) ==
    LET At(q) == LineStart(doc, q.line) + q.ch
    IN  At(ClipPos(doc, p))

OffsetToPos(doc, off) ==
    LET InLine(l) == Pos(l, off - LineStart(doc, l))
    IN  InLine(CHOOSE k \in 0..(Len(doc) - 1) :
                  /\ LineStart(doc, k) <= off
                  /\ off <= LineStart(doc, k) + Len(doc[k + 1]))

\* editor.getCursor("from") / editor.getCursor("to") / editor.getCursor()
CursorFrom(ed) == IF PosLE(ed.anchor, ed.head) THEN ed.anchor ELSE ed.head
CursorTo(ed) == IF PosLE(ed.anchor, ed.head) THEN ed.head ELSE ed.anchor
GetCursor(ed) == ed.head

\* editor.getRange(from, to)
GetRange(doc, from, to) == Slice(Join(doc), PosToOffset(doc, from), PosToOffset(doc, to))

\* editor.getSelection()
GetSelection(ed) == GetRange(ed.doc, CursorFrom(ed), CursorTo(ed))

\* the document after editor.replaceRange(text, from, to)
ReplaceText(doc, text, from, to) ==
    LET v == Join(doc)
    IN  Split(Slice(v, 0, PosToOffset(doc, from)) \o text \o SliceFrom(v, PosToOffset(doc, to)))

\* where the editor carries an offset across a replacement of [a, b) by n characters
MapOffset(off, a, b, n) ==
    IF off <= a THEN off ELSE IF off >= b THEN off - (b - a) + n ELSE a + n

\* editor.replaceRange(text, from, to): the selection is carried across the change
ReplaceRange(ed, text, from, to) ==
    LET Carried(a, b, nd) ==
            [doc    |-> nd,
             anchor |-> OffsetToPos(nd, MapOffset(PosToOffset(ed.doc, ed.anchor), a, b, Len(text))),
             head   |-> OffsetToPos(nd, MapOffset(PosToOffset(ed.doc, ed.head), a, b, Len(text)))]
    IN  Carried(PosToOffset(ed.doc, from), PosToOffset(ed.doc, to),
                ReplaceText(ed.doc, text, from, to))

\* editor.replaceSelection(text): the cursor ends after the inserted text
ReplaceSelection(ed, text) ==
    LET Put(nd, p) == [doc |-> nd, anchor |-> p, head |-> p]
        After(nd) == Put(nd, OffsetToPos(nd, PosToOffset(ed.doc, CursorFrom(ed)) + Len(text)))
    IN  After(ReplaceText(ed.doc, text, CursorFrom(ed), CursorTo(ed)))

\* editor.setLine(l, text)
SetLine(ed, l, text) == ReplaceRange(ed, text, Pos(l, 0), Pos(l, Len(ed.doc[l + 1])))

\* editor.setCursor(pos)
SetCursor(ed, p) ==
    LET At(q) == [doc |-> ed.doc, anchor |-> q, head |-> q]
    IN  At(ClipPos(ed.doc, p))

\* editor.setSelection(anchor, head)
SetSelection(ed, a, h) == [doc |-> ed.doc, anchor |-> ClipPos(ed.doc, a), head |-> ClipPos(ed.doc, h)]

\* a position that addresses a character boundary of the document
ValidPos(doc, p) ==
    /\ 0 <= p.line /\ p.line < Len(doc)
    /\ 0 <= p.ch /\ p.ch <= Len(doc[p.line + 1])

(***************************************************************************)
(* Settings and the helpers local to toggleComment.                        *)
(***************************************************************************)
CursorTag == <<"{", "c", "u", "r", "s", "o", "r", "}">>

\* Default styles for fallback removal
defaultStyles ==
    << [start |-> <<"%", "%">>, end |-> <<"%", "%">>],
       [start |-> <<"<", "!", "-", "-">>, end |-> <<"-", "-", ">">>],
       [start |-> <<"/", "/">>, end |-> <<>>] >>

\* the markerSet argument left out
NoMarkerSet == [given |-> FALSE, start |-> <<>>, end |-> <<>>]

\* markerStart / markerEnd taken from the template also when a marker set is passed
DeriveMarkers_TemplateAlways(markerSet, template) ==
    LET Around(cursorIndex) ==
            LET before == IF cursorIndex # -1 THEN Slice(template, 0, cursorIndex) ELSE template
                after  == IF cursorIndex # -1
                          THEN SliceFrom(template, cursorIndex + Len(CursorTag)) ELSE <<>>
            IN  [start |-> Trim(before), end |-> Trim(after)]
    IN  Around(IndexOf(template, CursorTag, 0))

\* markerStart / markerEnd as toggleComment derives them
DeriveMarkers(markerSet, template) ==
    LET Around(cursorIndex) ==
            LET before == IF cursorIndex # -1 THEN Slice(template, 0, cursorIndex) ELSE template
                after  == IF cursorIndex # -1
                          THEN SliceFrom(template, cursorIndex + Len(CursorTag)) ELSE <<>>
            IN  [start |-> Trim(before), end |-> Trim(after)]
    IN  IF markerSet.given
        THEN [start |-> Trim(markerSet.start), end |-> Trim(markerSet.end)]
        ELSE Around(IndexOf(template, CursorTag, 0))

\* the clamp left out: the position is passed on as computed
clampCursorPos_Unclamped(doc, pos) == pos

clampCursorPos(doc, pos) ==
    LET line == Max(0, Min(pos.line, Len(doc) - 1))
    IN  Pos(line, Max(0, Min(pos.ch, Len(doc[line + 1]))))

NoBounds == [start |-> -1, end |-> -1]

\* the word bounds that leave out a cursor at either end of the word
getWordBounds_StrictlyInside(line, ch) ==
    LET n == Len(line)
        runs == {r \in (0..n) \X (0..n) :
                    /\ r[1] < r[2]
                    /\ \A i \in (r[1] + 1)..r[2] : line[i] \in WordChars
                    /\ (r[1] = 0 \/ line[r[1]] \notin WordChars)
                    /\ (r[2] = n \/ line[r[2] + 1] \notin WordChars)}
        Bounds(r) == [start |-> r[1], end |-> r[2]]
        First(hit) == IF hit = {} THEN NoBounds
                      ELSE Bounds(CHOOSE x \in hit : \A y \in hit : x[1] <= y[1])
    IN  First({r \in runs : ch > r[1] /\ ch < r[2]})

\* the first maximal run of word characters that contains or touches ch
getWordBounds(line, ch) ==
    LET n == Len(line)
        runs == {r \in (0..n) \X (0..n) :
                    /\ r[1] < r[2]
                    /\ \A i \in (r[1] + 1)..r[2] : line[i] \in WordChars
                    /\ (r[1] = 0 \/ line[r[1]] \notin WordChars)
                    /\ (r[2] = n \/ line[r[2] + 1] \notin WordChars)}
        Bounds(r) == [start |-> r[1], end |-> r[2]]
        First(hit) == IF hit = {} THEN NoBounds
                      ELSE Bounds(CHOOSE x \in hit : \A y \in hit : x[1] <= y[1])
    IN  First({r \in runs : ch >= r[1] /\ ch <= r[2]})

isTextCommentedExact(str, start, end) ==
    IF start = <<>> THEN FALSE
    ELSE IF end # <<>> THEN StartsWith(str, start) /\ EndsWith(str, end)
    ELSE StartsWith(str, start)

NoScan == [type |-> "null", pos |-> NoPos]

\* the length of the longest line
MaxOfLens(lines) == Greatest({Len(lines[i]) : i \in 1..Len(lines)})

\* the scan that looks for the marker only and passes over the opposite marker
scanForFirst_PassingOpposite(lines, fromLine, fromCh, marker, opposite, direction) ==
    LET IsAt(p, m) == Substr(lines[p[1] + 1], p[2], Len(m)) = m
        Before(p, q) == IF direction = "back"
                        THEN p[1] > q[1] \/ (p[1] = q[1] /\ p[2] >= q[2])
                        ELSE p[1] < q[1] \/ (p[1] = q[1] /\ p[2] <= q[2])
        Examined(p, shortest) ==
            IF direction = "back"
            THEN /\ p[1] <= fromLine
                 /\ p[2] <= (IF p[1] = fromLine THEN fromCh ELSE Len(lines[p[1] + 1])) - 1
            ELSE /\ p[1] >= fromLine
                 /\ p[2] >= (IF p[1] = fromLine THEN fromCh ELSE 0)
                 /\ p[2] <= Len(lines[p[1] + 1]) - shortest
        First(hits) ==
            IF hits = {} THEN NoScan
            ELSE LET x == CHOOSE h \in hits : \A y \in hits : Before(h, y)
                 IN  [type |-> "marker", pos |-> Pos(x[1], x[2])]
        Scan(markerTrim, oppositeTrim, widest) ==
            First({p \in (0..(Len(lines) - 1)) \X (0..widest) :
                      /\ Examined(p, Min(Len(markerTrim), Len(oppositeTrim)))
                      /\ IsAt(p, markerTrim)})
    IN  Scan(Trim(marker), Trim(opposite), Max(fromCh, MaxOfLens(lines)))

\* scan the lines in a direction for a marker, stopping at the opposite marker
scanForFirst(lines, fromLine, fromCh, marker, opposite, direction) ==
    LET IsAt(p, m) == Substr(lines[p[1] + 1], p[2], Len(m)) = m
        Before(p, q) == IF direction = "back"
                        THEN p[1] > q[1] \/ (p[1] = q[1] /\ p[2] >= q[2])
                        ELSE p[1] < q[1] \/ (p[1] = q[1] /\ p[2] <= q[2])
        Examined(p, shortest) ==
            IF direction = "back"
            THEN /\ p[1] <= fromLine
                 /\ p[2] <= (IF p[1] = fromLine THEN fromCh ELSE Len(lines[p[1] + 1])) - 1
            ELSE /\ p[1] >= fromLine
                 /\ p[2] >= (IF p[1] = fromLine THEN fromCh ELSE 0)
                 /\ p[2] <= Len(lines[p[1] + 1]) - shortest
        Found(p, markerTrim) ==
            [type |-> IF IsAt(p, markerTrim) THEN "marker" ELSE "opposite",
             pos  |-> Pos(p[1], p[2])]
        First(hits, markerTrim) ==
            IF hits = {} THEN NoScan
            ELSE Found(CHOOSE x \in hits : \A y \in hits : Before(x, y), markerTrim)
        Scan(markerTrim, oppositeTrim, widest) ==
            First({p \in (0..(Len(lines) - 1)) \X (0..widest) :
                      /\ Examined(p, Min(Len(markerTrim), Len(oppositeTrim)))
                      /\ (IsAt(p, markerTrim) \/ IsAt(p, oppositeTrim))},
                  markerTrim)
    IN  Scan(Trim(marker), Trim(opposite), Max(fromCh, MaxOfLens(lines)))

\* the selection holds a prefix or a suffix of the marker
containsPartOfMarker(sel, marker) ==
    /\ marker # <<>>
    /\ \E i \in 1..Len(marker) :
          Includes(sel, Slice(marker, 0, i)) \/ Includes(sel, Slice(marker, 0 - i, Len(marker)))

(***************************************************************************)
(* Marker detection of toggleComment.  A detection state is the triple     *)
(* isComment, commentStartPos, commentEndPos.                              *)
(***************************************************************************)
Det(c, s, e) == [isComment |-> c, startPos |-> s, endPos |-> e]

\* main logic for comment detection: nearest marker behind and ahead of the target
ScanDetect(lines, from, to, markerStart, markerEnd) ==
    LET Both(before, after) ==
            Det(before.type = "marker" /\ after.type = "marker",
                IF before.type = "marker" THEN before.pos ELSE NoPos,
                IF after.type = "marker" THEN after.pos ELSE NoPos)
    IN  IF markerStart # <<>> /\ markerEnd # <<>>
        THEN Both(scanForFirst(lines, from.line, from.ch, markerStart, markerEnd, "back"),
                  scanForFirst(lines, to.line, to.ch, markerEnd, markerStart, "forward"))
        ELSE Det(FALSE, NoPos, NoPos)

\* foundStart of the enhanced selection detection
FoundStart(lineText, selectionText, from, markerStart) ==
    \/ /\ containsPartOfMarker(selectionText, markerStart)
       /\ Includes(Slice(lineText, Max(0, from.ch - Len(markerStart)),
                         from.ch + Len(selectionText)), markerStart)
    \/ Includes(selectionText, markerStart)

\* foundEnd of the enhanced selection detection
FoundEnd(lineText, selectionText, from, to, markerEnd) ==
    \/ /\ containsPartOfMarker(selectionText, markerEnd)
       /\ Includes(Slice(lineText, from.ch, Min(Len(lineText), to.ch + Len(markerEnd))),
                   markerEnd)
    \/ Includes(selectionText, markerEnd)

\* identical markers: search both directions for the other marker
IdenticalDetect(lines, from, to, markerStart, markerEnd, det) ==
    LET Both(s, e) == Det(det.isComment \/ (s # NoPos /\ e # NoPos), s, e)
        With(before, after) ==
            Both(IF before.type = "marker" THEN before.pos ELSE det.startPos,
                 IF after.type = "marker" THEN after.pos ELSE det.endPos)
    IN  With(scanForFirst(lines, from.line, from.ch, markerStart, <<>>, "back"),
             scanForFirst(lines, to.line, to.ch, markerEnd, <<>>, "forward"))

\* search forward for the end marker, stop if another start marker is found first
ForwardEndSearch(lines, lineText, from, markerStart, markerEnd, det) ==
    LET searchLine == from.line
        IsAt(p, m) == Substr(lines[p[1] + 1], p[2], Len(m)) = m
        Stop(p, searchCh) ==
            IF IsAt(p, markerEnd)
            THEN Det(TRUE, Pos(searchLine, searchCh), Pos(p[1], p[2]))
            ELSE det
        First(hits, searchCh) ==
            IF hits = {} THEN det
            ELSE Stop(CHOOSE x \in hits : \A y \in hits :
                          x[1] < y[1] \/ (x[1] = y[1] /\ x[2] <= y[2]), searchCh)
        Search(searchCh) ==
            First({p \in (searchLine..(Len(lines) - 1)) \X (0..MaxOfLens(lines)) :
                      /\ p[2] >= (IF p[1] = searchLine THEN searchCh + Len(markerStart) ELSE 0)
                      /\ p[2] <= Len(lines[p[1] + 1]) - Len(markerEnd)
                      /\ \/ IsAt(p, markerEnd)
                         \/ IsAt(p, markerStart) /\ (p[1] # searchLine \/ p[2] # searchCh)},
                  searchCh)
        From(at) == Search(IF at = -1 THEN from.ch ELSE at)
    IN  From(IndexOf(lineText, markerStart, from.ch))

\* search backward for the start marker, stop if another end marker is found first
BackwardStartSearch(lines, lineText, from, to, markerStart, markerEnd, det) ==
    LET searchLine == to.line
        IsAt(p, m) == Substr(lines[p[1] + 1], p[2], Len(m)) = m
        Stop(p, searchCh) ==
            IF IsAt(p, markerStart)
            THEN Det(TRUE, Pos(p[1], p[2]), Pos(searchLine, searchCh))
            ELSE det
        First(hits, searchCh) ==
            IF hits = {} THEN det
            ELSE Stop(CHOOSE x \in hits : \A y \in hits :
                          x[1] > y[1] \/ (x[1] = y[1] /\ x[2] >= y[2]), searchCh)
        Search(searchCh) ==
            First({p \in (0..searchLine) \X (0..Max(searchCh, MaxOfLens(lines))) :
                      /\ p[2] <= (IF p[1] = searchLine THEN searchCh
                                  ELSE Len(lines[p[1] + 1])) - 1
                      /\ \/ IsAt(p, markerStart)
                         \/ IsAt(p, markerEnd) /\ (p[1] # searchLine \/ p[2] # searchCh)},
                  searchCh)
        From(at) == Search(IF at = -1 THEN to.ch ELSE at)
    IN  From(IndexOf(lineText, markerEnd, from.ch))

\* first enhanced selection marker detection block
EnhancedDetect1(lines, lineText, selectionText, from, to, markerStart, markerEnd, det) ==
    LET Branch(foundStart, foundEnd) ==
            IF markerStart = markerEnd /\ Len(markerStart) > 0 /\ (foundStart \/ foundEnd)
            THEN IdenticalDetect(lines, from, to, markerStart, markerEnd, det)
            ELSE IF foundStart /\ ~foundEnd
            THEN ForwardEndSearch(lines, lineText, from, markerStart, markerEnd, det)
            ELSE IF foundEnd /\ ~foundStart
            THEN BackwardStartSearch(lines, lineText, from, to, markerStart, markerEnd, det)
            ELSE det
    IN  Branch(FoundStart(lineText, selectionText, from, markerStart),
               FoundEnd(lineText, selectionText, from, to, markerEnd))

\* only trigger marker removal if the selection is at a marker boundary of its line
AtMarkerBoundary(lineText, from, to, markerStart, markerEnd) ==
    LET atStartBoundary ==
            /\ from.ch <= Len(markerStart)
            /\ StartsWith(Slice(lineText, 0, Len(markerStart)), markerStart)
        atEndBoundary ==
            /\ to.ch >= Len(lineText) - Len(markerEnd)
            /\ EndsWith(Slice(lineText, 0 - Len(markerEnd), Len(lineText)), markerEnd)
    IN  atStartBoundary \/ atEndBoundary

\* second enhanced selection marker detection block
EnhancedDetect2(lines, lineText, selectionText, from, to, markerStart, markerEnd, det) ==
    LET Both(s, e) == Det(det.isComment \/ (s # NoPos /\ e # NoPos), s, e)
        EndAhead(after, startChIdx) ==
            Both(IF startChIdx # -1 THEN Pos(from.line, startChIdx) ELSE det.startPos,
                 IF after.type = "marker" THEN after.pos ELSE det.endPos)
        StartBehind(before, endChIdx) ==
            Both(IF before.type = "marker" THEN before.pos ELSE det.startPos,
                 IF endChIdx # -1 THEN Pos(to.line, endChIdx) ELSE det.endPos)
        Branch(foundStart, foundEnd) ==
            IF markerStart = markerEnd /\ Len(markerStart) > 0 /\ (foundStart \/ foundEnd)
            THEN IdenticalDetect(lines, from, to, markerStart, markerEnd, det)
            ELSE IF foundStart
            THEN EndAhead(scanForFirst(lines, to.line, to.ch, markerEnd, markerStart, "forward"),
                          IndexOf(lineText, markerStart, from.ch))
            ELSE IF foundEnd
            THEN StartBehind(scanForFirst(lines, from.line, from.ch, markerStart, markerEnd, "back"),
                             IndexOf(lineText, markerEnd, from.ch))
            ELSE det
    IN  Branch(FoundStart(lineText, selectionText, from, markerStart),
               FoundEnd(lineText, selectionText, from, to, markerEnd))

\* the result of a call whose removal deletes each marker with an edit call of its own
Outcome_EditPerMarker(ed, path, handed, edits) ==
    [ed |-> ed, path |-> path, handed |-> handed,
     edits |-> IF path = "remove" THEN edits + 1 ELSE edits]

(***************************************************************************)
(* The paths of toggleComment.  An outcome is the editor afterwards, the   *)
(* path taken, the positions handed to setCursor / setSelection in call    *)
(* order, and the number of edit calls made on the editor.                 *)
(***************************************************************************)
Outcome(ed, path, handed, edits) ==
    [ed |-> ed, path |-> path, handed |-> handed, edits |-> edits]

\* the clamp that closes toggleComment
FinalClamp(o) ==
    LET Clamped(finalCursor) ==
            IF finalCursor # GetCursor(o.ed)
            THEN Outcome(SetCursor(o.ed, finalCursor), o.path, Append(o.handed, finalCursor), o.edits)
            ELSE o
    IN  Clamped(clampCursorPos(o.ed.doc, GetCursor(o.ed)))

\* isComment with both positions known: take the two markers out of their lines
RemoveMarkers(ed, from, markerStart, markerEnd, det) ==
    LET sPos == det.startPos
        ePos == det.endPos
        startLen == Len(markerStart) + 1
        endLen == Len(markerEnd) + 1
        fromLine == Min(sPos.line, ePos.line)
        toLine == Max(sPos.line, ePos.line)
        Cut(line, at, n) == Slice(line, 0, at) \o SliceFrom(line, at + n)
        Placed(ed1, clamped) == Outcome(SetCursor(ed1, clamped), "remove", <<clamped>>, 1)
        Written(lines2, ed1, newCursorLine) ==
            Placed(ed1, clampCursorPos(ed1.doc,
                            Pos(newCursorLine,
                                Min(Max(from.ch - startLen, 0), Len(lines2[newCursorLine + 1])))))
        Write(lines2) ==
            Written(lines2,
                    ReplaceRange(ed, Join(SubSeq(lines2, fromLine + 1, toLine + 1)),
                                 Pos(fromLine, 0), Pos(toLine, Len(GetLine(ed.doc, toLine)))),
                    Min(from.line, Len(lines2) - 1))
        EndCut(lines1, endChIdx) ==
            IF endChIdx = -1
            THEN Outcome(ed, "removeSkipped", <<>>, 0)
            ELSE Write([lines1 EXCEPT ![ePos.line + 1] = Cut(lines1[ePos.line + 1], endChIdx, endLen)])
        Bare(updatedLine, bare) ==
            IF bare > 0 /\ updatedLine[bare] = SP THEN bare - 1 ELSE bare
        EndIdx(updatedLine, withSpace) ==
            IF sPos.line # ePos.line THEN ePos.ch
            ELSE IF withSpace # -1 THEN withSpace
            ELSE Bare(updatedLine, IndexOf(updatedLine, markerEnd, withSpace))
        StartCut(lines1) ==
            EndCut(lines1, EndIdx(lines1[ePos.line + 1],
                                  IndexOf(lines1[ePos.line + 1], <<SP>> \o markerEnd,
                                          ePos.ch - startLen)))
    IN  StartCut([ed.doc EXCEPT ![sPos.line + 1] = Cut(ed.doc[sPos.line + 1], sPos.ch, startLen)])

\* the resolved target: selection, word at the cursor, or the bare cursor
ResolveTarget(ed, wordOnlyMode) ==
    LET cursor == GetCursor(ed)
        UseWord(wordBounds) ==
            /\ wordBounds # NoBounds
            /\ \/ cursor.ch > wordBounds.start /\ cursor.ch < wordBounds.end
               \/ wordOnlyMode /\ (cursor.ch = wordBounds.start \/ cursor.ch = wordBounds.end)
        Resolve(selection, line, wordBounds) ==
            IF selection # <<>>
            THEN [kind |-> "selection", text |-> selection,
                  from |-> CursorFrom(ed), to |-> CursorTo(ed)]
            ELSE IF UseWord(wordBounds)
            THEN [kind |-> "word", text |-> Slice(line, wordBounds.start, wordBounds.end),
                  from |-> Pos(cursor.line, wordBounds.start),
                  to |-> Pos(cursor.line, wordBounds.end)]
            ELSE [kind |-> "cursor", text |-> <<>>, from |-> cursor, to |-> cursor]
    IN  Resolve(GetSelection(ed), GetLine(ed.doc, cursor.line),
                getWordBounds(GetLine(ed.doc, cursor.line), cursor.ch))

NoRemoval == [inside |-> FALSE, start |-> <<>>, end |-> <<>>, checkText |-> <<>>]

\* a begins with start and b ends with end, tried with the given pair, then the default styles
WrappedBy(a, b, start, end, checkText) ==
    LET Wraps(s, e) == s # <<>> /\ e # <<>> /\ StartsWith(a, s) /\ EndsWith(b, e)
        Style(i) == [inside |-> TRUE, start |-> defaultStyles[i].start,
                     end |-> defaultStyles[i].end, checkText |-> checkText]
        First(styles) == IF styles # {} THEN Style(Least(styles)) ELSE NoRemoval
    IN  IF Wraps(start, end)
        THEN [inside |-> TRUE, start |-> start, end |-> end, checkText |-> checkText]
        ELSE First({i \in 1..Len(defaultStyles) :
                       Wraps(defaultStyles[i].start, defaultStyles[i].end)})

\* "removal takes priority": is the selection, the word or the line wrapped in markers
RemovalInside(ed, target, markerStart, markerEnd) ==
    LET line == GetLine(ed.doc, GetCursor(ed).line)
        lineStart == GetLine(ed.doc, target.from.line)
        lineEnd == GetLine(ed.doc, target.to.line)
        OrElse(first, second) == IF first.inside THEN first ELSE second
    IN  IF target.kind = "selection"
        THEN OrElse(WrappedBy(target.text, target.text, markerStart, markerEnd, target.text),
                    WrappedBy(lineStart, lineEnd, markerStart, markerEnd,
                              GetRange(ed.doc, Pos(target.from.line, 0),
                                       Pos(target.to.line, Len(lineEnd)))))
        ELSE IF target.kind = "word"
        THEN OrElse(WrappedBy(line, line, markerStart, markerEnd, line),
                    WrappedBy(target.text, target.text, markerStart, markerEnd, target.text))
        ELSE WrappedBy(line, line, markerStart, markerEnd, line)

\* removalInside: delete an emptied marker pair, otherwise do nothing
RemovalInsidePath(ed, target, removal) ==
    LET lineText == GetLine(ed.doc, target.from.line)
        Emptied(startIdx, endIdx) ==
            Outcome(SetCursor(SetLine(ed, target.from.line,
                                      Slice(lineText, 0, startIdx)
                                        \o SliceFrom(lineText, endIdx + Len(removal.end))),
                              Pos(target.from.line, startIdx)),
                    "removalInsideEdit", <<Pos(target.from.line, startIdx)>>, 1)
        Between(startIdx, endIdx) ==
            IF /\ endIdx # -1
               /\ IsBlank(Slice(lineText, startIdx + Len(removal.start), endIdx))
            THEN Emptied(startIdx, endIdx)
            ELSE Outcome(ed, "removalInsideNoop", <<>>, 0)
        From(startIdx) ==
            Between(startIdx,
                    IF removal.end # <<>>
                    THEN IndexOf(lineText, removal.end, startIdx + Len(removal.start)) ELSE -1)
    IN  IF /\ target.kind = "selection"
           /\ removal.start # <<>>
           /\ removal.checkText = removal.start
        THEN From(IndexOf(lineText, removal.start, 0))
        ELSE Outcome(ed, "removalInsideNoop", <<>>, 0)

\* text is commented with the configured markers or a default style
InsideExact(checkText, markerStart, markerEnd) ==
    \/ markerStart # <<>> /\ isTextCommentedExact(checkText, markerStart, markerEnd)
    \/ \E i \in 1..Len(defaultStyles) :
          /\ defaultStyles[i].start # <<>>
          /\ isTextCommentedExact(checkText, defaultStyles[i].start, defaultStyles[i].end)

NoStrip == [ok |-> FALSE, str |-> <<>>]

\* the separator spaces left out
buildCommented_NoSpaces(text, markerStart, markerEnd) ==
    markerStart \o text \o markerEnd

buildCommented(text, markerStart, markerEnd) ==
    markerStart \o <<SP>> \o text \o <<SP>> \o markerEnd

\* one space between the markers instead of two
emptyCommented_OneSpace(markerStart, markerEnd) ==
    markerStart \o <<SP>> \o markerEnd

\* no selection and no text: two spaces between the markers
emptyCommented(markerStart, markerEnd) ==
    markerStart \o <<SP, SP>> \o markerEnd

\* match and remove the full markers (with spaces, then without)
stripCommented(str, markerStart, markerEnd) ==
    LET start == markerStart \o <<SP>>
        end == <<SP>> \o markerEnd
    IN  IF StartsWith(str, start) /\ EndsWith(str, end)
        THEN [ok |-> TRUE, str |-> Slice(str, Len(start), Len(str) - Len(end))]
        ELSE IF StartsWith(str, markerStart) /\ EndsWith(str, markerEnd)
        THEN [ok |-> TRUE, str |-> Trim(Slice(str, Len(markerStart), Len(str) - Len(markerEnd)))]
        ELSE NoStrip

\* the uncomment path that counts the end of the new selection from the start of the line
UncommentPath_EndFromLineStart(ed, target, safeUncommented) ==
    LET cursor == GetCursor(ed)
        Selected(ed1, selFrom, selTo) ==
            Outcome(SetSelection(ed1, selFrom, selTo), "uncomment", <<selFrom, selTo>>, 1)
        Placed(ed1, at) == Outcome(SetCursor(ed1, at), "uncomment", <<at>>, 1)
        Select(ed1) ==
            Selected(ed1, clampCursorPos(ed1.doc, target.from),
                     clampCursorPos(ed1.doc, Pos(target.to.line, Len(safeUncommented))))
        PlaceWord(ed1) ==
            Placed(ed1, clampCursorPos(ed1.doc, Pos(cursor.line,
                                                    target.from.ch + Len(safeUncommented))))
        PlaceCursor(ed1) == Placed(ed1, clampCursorPos(ed1.doc, cursor))
    IN  IF target.kind = "selection"
        THEN Select(ReplaceSelection(ed, safeUncommented))
        ELSE IF target.kind = "word"
        THEN PlaceWord(ReplaceRange(ed, safeUncommented, target.from, target.to))
        ELSE PlaceCursor(ReplaceRange(ed, safeUncommented, cursor, cursor))

\* inside: replace the target by its uncommented text
UncommentPath(ed, target, safeUncommented) ==
    LET cursor == GetCursor(ed)
        Selected(ed1, selFrom, selTo) ==
            Outcome(SetSelection(ed1, selFrom, selTo), "uncomment", <<selFrom, selTo>>, 1)
        Placed(ed1, at) == Outcome(SetCursor(ed1, at), "uncomment", <<at>>, 1)
        Select(ed1) ==
            Selected(ed1, clampCursorPos(ed1.doc, target.from),
                     clampCursorPos(ed1.doc, Pos(target.to.line,
                                                 target.from.ch + Len(safeUncommented))))
        PlaceWord(ed1) ==
            Placed(ed1, clampCursorPos(ed1.doc, Pos(cursor.line,
                                                    target.from.ch + Len(safeUncommented))))
        PlaceCursor(ed1) == Placed(ed1, clampCursorPos(ed1.doc, cursor))
    IN  IF target.kind = "selection"
        THEN Select(ReplaceSelection(ed, safeUncommented))
        ELSE IF target.kind = "word"
        THEN PlaceWord(ReplaceRange(ed, safeUncommented, target.from, target.to))
        ELSE PlaceCursor(ReplaceRange(ed, safeUncommented, cursor, cursor))

\* not inside: insert the markers with spaces around the trimmed target text
InsertPath(ed, target, markerStart, markerEnd) ==
    LET cursor == GetCursor(ed)
        startOffset == Len(markerStart \o <<SP>>)
        Selected(ed1, selFrom, selTo) ==
            Outcome(SetSelection(ed1, selFrom, selTo), "insert", <<selFrom, selTo>>, 1)
        Placed(ed1, at) == Outcome(SetCursor(ed1, at), "insert", <<at>>, 1)
        Select(ed1, trimmedText) ==
            Selected(ed1, clampCursorPos(ed1.doc, Pos(target.from.line,
                                                      target.from.ch + startOffset)),
                     clampCursorPos(ed1.doc, Pos(target.to.line,
                                                 target.from.ch + startOffset + Len(trimmedText))))
        PlaceWord(ed1) ==
            Placed(ed1, clampCursorPos(ed1.doc, Pos(cursor.line, target.from.ch + startOffset)))
        PlaceCursor(ed1) ==
            Placed(ed1, clampCursorPos(ed1.doc, Pos(cursor.line, cursor.ch + startOffset)))
        Insert(trimmedText, commented) ==
            IF target.kind = "selection"
            THEN Select(ReplaceSelection(ed, commented), trimmedText)
            ELSE IF target.kind = "word"
            THEN PlaceWord(ReplaceRange(ed, commented, target.from, target.to))
            ELSE PlaceCursor(ReplaceRange(ed, commented, cursor, cursor))
        Build(trimmedText) ==
            IF target.kind # "selection" /\ trimmedText = <<>>
            THEN PlaceCursor(ReplaceRange(ed, emptyCommented(markerStart, markerEnd),
                                          cursor, cursor))
            ELSE Insert(trimmedText, buildCommented(trimmedText, markerStart, markerEnd))
    IN  Build(Trim(target.text))

\* the marker pair located around the target by the three detection blocks
Detect(ed, markerStart, markerEnd) ==
    LET Enhanced(lineText, selection, from, to, det0) ==
            EnhancedDetect2(ed.doc, lineText, selection, from, to, markerStart, markerEnd,
                            EnhancedDetect1(ed.doc, lineText, selection, from, to,
                                            markerStart, markerEnd, det0))
        Blocks(selection, from, to, det0) ==
            IF selection # <<>> /\ markerStart # <<>> /\ markerEnd # <<>>
            THEN Enhanced(GetLine(ed.doc, from.line), selection, from, to, det0)
            ELSE det0
    IN  Blocks(GetSelection(ed), CursorFrom(ed), CursorTo(ed),
               ScanDetect(ed.doc, CursorFrom(ed), CursorTo(ed), markerStart, markerEnd))

\* toggleComment(editor, markerSet?)
toggleComment(ed, markerSet, settings) ==
    LET from == CursorFrom(ed)
        to == CursorTo(ed)
        Edit(markerStart, markerEnd, target, uncommented) ==
            IF InsideExact(target.text, markerStart, markerEnd) \/ uncommented.ok
            THEN FinalClamp(UncommentPath(ed, target, IF uncommented.ok THEN uncommented.str
                                                      ELSE target.text))
            ELSE FinalClamp(InsertPath(ed, target, markerStart, markerEnd))
        Unwrap(markerStart, markerEnd, target, removal) ==
            IF removal.inside
            THEN RemovalInsidePath(ed, target, removal)
            ELSE Edit(markerStart, markerEnd, target,
                      stripCommented(target.text, markerStart, markerEnd))
        Remove(markerStart, markerEnd, target, det) ==
            IF det.isComment /\ det.startPos # NoPos /\ det.endPos # NoPos
            THEN RemoveMarkers(ed, from, markerStart, markerEnd, det)
            ELSE Unwrap(markerStart, markerEnd, target,
                        RemovalInside(ed, target, markerStart, markerEnd))
        Locate(markerStart, markerEnd, selection, target) ==
            IF /\ selection # <<>> /\ markerStart # <<>> /\ markerEnd # <<>>
               /\ ~AtMarkerBoundary(GetLine(ed.doc, from.line), from, to, markerStart, markerEnd)
            THEN Outcome(ed, "insideMarker", <<>>, 0)
            ELSE Remove(markerStart, markerEnd, target, Detect(ed, markerStart, markerEnd))
        With(markers) ==
            Locate(markers.start, markers.end, GetSelection(ed),
                   ResolveTarget(ed, settings.wordOnlyMode))
    IN  With(DeriveMarkers(markerSet, settings.template))

(***************************************************************************)
(* The plugin as a state machine: the editor the commands act on, the      *)
(* plugin settings, and a log of the toggleComment invocations so far.     *)
(***************************************************************************)
VARIABLES doc, anchor, head, settings, log, input, calls, plugin, host

vars == <<doc, anchor, head, settings, log, input, calls, plugin, host>>

editor == [doc |-> doc, anchor |-> anchor, head |-> head]

\* characters the documents are written in
Alphabet == {"a", SP, "%"}

Lines(n) == UNION {[1..k -> Alphabet] : k \in 0..n}

Documents ==
    {<<l>> : l \in Lines(MaxLineLen)}
      \cup {<<l[1], l[2]>> : l \in {x \in Lines(MaxTwoLineLen) \X Lines(MaxTwoLineLen) :
                                        Len(x[1]) + Len(x[2]) <= MaxTwoLineLen}}

Positions(d) == {p \in [line : 0..(Len(d) - 1), ch : 0..MaxOfLens(d)] : ValidPos(d, p)}

Template(before, after) == before \o CursorTag \o after

\* the settings the model starts from: the template, word-only mode, additional marker sets
Configurations ==
    { [template |-> Template(<<"%", SP>>, <<SP, "%">>), wordOnlyMode |-> FALSE,
       additionalMarkers |-> <<>>],
      [template |-> Template(<<"%", SP>>, <<SP, "%">>), wordOnlyMode |-> TRUE,
       additionalMarkers |-> <<>>],
      [template |-> Template(<<"%">>, <<>>), wordOnlyMode |-> FALSE,
       additionalMarkers |-> <<[start |-> <<>>, end |-> <<>>, registerCommand |-> TRUE]>>],
      [template |-> Template(<<>>, <<SP, "%">>), wordOnlyMode |-> FALSE,
       additionalMarkers |-> <<[start |-> <<"%", "%">>, end |-> <<"%", "%">>,
                                registerCommand |-> FALSE]>>] }

(***************************************************************************)
(* The plugin object and the host application around it.  plugin holds     *)
(* the private fields _cleanupGuard and _markerCommandIds; host holds the  *)
(* commands registered with addCommand (a command of an id replaces the    *)
(* one registered under that id before), the stack of toggleComment calls  *)
(* in progress and the number of change events not yet delivered.          *)
(* Command id 0 is "toggle-comment-template", id i is                       *)
(* "toggle-comment-marker-set-i".                                          *)
(***************************************************************************)
\* app.commands after addCommand({id, ...}) with a callback that toggles with marker
AddCommand(commands, id, marker) ==
    {c \in commands : c.id # id} \cup {[id |-> id, marker |-> marker]}

\* the forEach of registerMarkerCommands from index i on
RECURSIVE RegisterFrom(_, _, _)
RegisterFrom(reg, markers, i) ==
    IF i > Len(markers) THEN reg
    ELSE IF markers[i].registerCommand
    THEN RegisterFrom([ids |-> Append(reg.ids, i),
                       commands |-> AddCommand(reg.commands, i,
                                               [given |-> TRUE, start |-> markers[i].start,
                                                end |-> markers[i].end])],
                      markers, i + 1)
    ELSE RegisterFrom(reg, markers, i + 1)

\* registerMarkerCommands(force): the tracked ids and the commands of the host afterwards
registerMarkerCommands(commands, s) ==
    RegisterFrom([ids |-> <<0>>, commands |-> AddCommand(commands, 0, NoMarkerSet)],
                 s.additionalMarkers, 1)

\* the plugin and the host when onload has run with the settings s
Loaded(s) ==
    LET After(reg) ==
            [plugin |-> [cleanupGuard |-> FALSE, markerCommandIds |-> reg.ids],
             host |-> [commands |-> reg.commands, stack |-> <<>>, pending |-> 0]]
    IN  After(registerMarkerCommands({}, s))

Init ==
    /\ settings \in Configurations
    /\ doc \in Documents
    /\ anchor \in Positions(doc)
    /\ head \in Positions(doc)
    /\ log = <<>>
    /\ input = <<>>
    /\ calls = <<>>
    /\ plugin = Loaded(settings).plugin
    /\ host = Loaded(settings).host

\* an invocation that works with the marker set of the invocation before it
Invoke_RetainingMarkers(ed, markerSet, s, earlier) ==
    IF earlier = <<>> THEN toggleComment(ed, markerSet, s)
    ELSE toggleComment(ed, earlier[Len(earlier)].markerSet, s)

\* this.toggleComment(editor, markerSet) after the invocations earlier: the method reads
\* this.settings and the editor, and no field that an invocation before it has written
Invoke(ed, markerSet, s, earlier) == toggleComment(ed, markerSet, s)

\* one toggleComment invocation on the editor, logged with what it read at entry
Toggle(markerSet) ==
    \E o \in {Invoke(editor, markerSet, settings, log)} :
    \E m \in {DeriveMarkers(markerSet, settings.template)} :
        /\ Len(log) < MaxToggles
        /\ doc' = o.ed.doc
        /\ anchor' = o.ed.anchor
        /\ head' = o.ed.head
        /\ log' = Append(log, [pre     |-> editor,
                               markerSet |-> markerSet,
                               markers |-> m,
                               target  |-> ResolveTarget(editor, settings.wordOnlyMode),
                               located |-> Detect(editor, m.start, m.end),
                               path    |-> o.path,
                               handed  |-> o.handed,
                               edits   |-> o.edits])
        /\ UNCHANGED <<settings, input, calls, plugin, host>>

\* the command "toggle-comment-template"
ToggleCommentCommand == Toggle(NoMarkerSet)

\* the command "toggle-comment-marker-set-(i+1)" of an enabled additional marker set
ToggleMarkerSetCommand ==
    \E i \in 1..Len(settings.additionalMarkers) :
        /\ settings.additionalMarkers[i].registerCommand
        /\ Toggle([given |-> TRUE,
                   start |-> settings.additionalMarkers[i].start,
                   end   |-> settings.additionalMarkers[i].end])

Next == ToggleCommentCommand \/ ToggleMarkerSetCommand

Spec == Init /\ [][Next]_vars

(***************************************************************************)
(* The same commands started on documents of two lines that each hold one  *)
(* marker pair, with a selection inside the pair of the second line.       *)
(***************************************************************************)
\* inner text wrapped by the pair m, with or without the separator spaces
WrappedLines(m) ==
    {m.start \o padL \o inner \o padR \o m.end :
        padL \in {<<>>, <<SP>>}, padR \in {<<>>, <<SP>>},
        inner \in {<<"a">>, <<"a", "b">>}}

\* the template pair "%%" .. "%%" and one enabled additional pair "<" .. ">"
TwoPairsSettings ==
    [template |-> Template(<<"%", "%", SP>>, <<SP, "%", "%">>), wordOnlyMode |-> FALSE,
     additionalMarkers |-> <<[start |-> <<"<">>, end |-> <<">">>, registerCommand |-> TRUE]>>]

TwoPairsMarkers ==
    {DeriveMarkers(NoMarkerSet, TwoPairsSettings.template),
     [start |-> TwoPairsSettings.additionalMarkers[1].start,
      end   |-> TwoPairsSettings.additionalMarkers[1].end]}

InitTwoPairs ==
    /\ settings = TwoPairsSettings
    /\ \E m \in TwoPairsMarkers :
          /\ doc \in WrappedLines(m) \X WrappedLines(m)
          /\ anchor \in {p \in Positions(doc) :
                            /\ p.line = 1
                            /\ p.ch >= Len(m.start)
                            /\ p.ch <= Len(doc[2]) - Len(m.end)}
          /\ head \in {p \in Positions(doc) :
                            /\ p.line = 1
                            /\ p.ch >= Len(m.start)
                            /\ p.ch <= Len(doc[2]) - Len(m.end)}
    /\ anchor # head
    /\ log = <<>>
    /\ input = <<>>
    /\ calls = <<>>
    /\ plugin = Loaded(settings).plugin
    /\ host = Loaded(settings).host

SpecTwoPairs == InitTwoPairs /\ [][Next]_vars

(***************************************************************************)
(* The string utilities of src/src/utils, applied to strings of at most    *)
(* MaxTextLen characters; a call takes the result of the call before it.   *)
(***************************************************************************)
\* the replacement taking at most two whitespace characters at a time
RECURSIVE ReplaceWhitespaceRuns_TwoAtATime(_)
ReplaceWhitespaceRuns_TwoAtATime(str) ==
    IF str = <<>> THEN <<>>
    ELSE IF str[1] \notin Whitespace
    THEN <<str[1]>> \o ReplaceWhitespaceRuns_TwoAtATime(Tail(str))
    ELSE IF Len(str) >= 2 /\ str[2] \in Whitespace
    THEN <<SP>> \o ReplaceWhitespaceRuns_TwoAtATime(Tail(Tail(str)))
    ELSE <<SP>> \o ReplaceWhitespaceRuns_TwoAtATime(Tail(str))

\* str.replace(/\s+/g, ' '): every maximal run of whitespace becomes one space
RECURSIVE ReplaceWhitespaceRuns(_)
ReplaceWhitespaceRuns(str) ==
    LET AfterRun(rest) ==
            IF rest = {} THEN <<>>
            ELSE ReplaceWhitespaceRuns(SubSeq(str, Least(rest), Len(str)))
    IN  IF str = <<>> THEN <<>>
        ELSE IF str[1] \notin Whitespace
        THEN <<str[1]>> \o ReplaceWhitespaceRuns(Tail(str))
        ELSE <<SP>> \o AfterRun({i \in 1..Len(str) :
                                    \E j \in 1..i : str[j] \notin Whitespace})

\* the normalisation without the trim
normalize_Untrimmed(str) == ReplaceWhitespaceRuns(str)

normalize(str) == Trim(ReplaceWhitespaceRuns(str))

\* isRegionCommented without the trim of the text
isRegionCommented_Untrimmed(str, start, end) ==
    IF start # <<>> /\ end # <<>> THEN StartsWith(str, start) /\ EndsWith(str, end)
    ELSE IF start # <<>> THEN StartsWith(str, start)
    ELSE FALSE

\* isRegionCommented with nothing but the startsWith test
isRegionCommented_StartOnly(str, start, end) == StartsWith(Trim(str), start)

isRegionCommented(str, start, end) ==
    LET Test(trimmed) ==
            IF start # <<>> /\ end # <<>>
            THEN StartsWith(trimmed, start) /\ EndsWith(trimmed, end)
            ELSE IF start # <<>> THEN StartsWith(trimmed, start)
            ELSE FALSE
    IN  Test(Trim(str))

NotFound == [found |-> FALSE, markerStart |-> <<>>, markerEnd |-> <<>>]

detectFallback(str) ==
    LET First(styles) ==
            IF styles = {} THEN NotFound
            ELSE [found |-> TRUE, markerStart |-> defaultStyles[Least(styles)].start,
                  markerEnd |-> defaultStyles[Least(styles)].end]
    IN  First({i \in 1..Len(defaultStyles) :
                  isRegionCommented(str, normalize(defaultStyles[i].start),
                                    normalize(defaultStyles[i].end))})

\* characters the utility strings are written in
TextAlphabet == {"a", "b", SP, TAB, NL}

Texts == UNION {[1..k -> TextAlphabet] : k \in 0..MaxTextLen}

\* the pieces the texts handed to the comment detection are put together from
Pieces ==
    {defaultStyles[i].start : i \in 1..Len(defaultStyles)}
        \cup {defaultStyles[i].end : i \in 1..Len(defaultStyles)}
        \cup {<<"a">>, <<SP>>}

RECURSIVE Concat(_)
Concat(pieces) == IF pieces = <<>> THEN <<>> ELSE Head(pieces) \o Concat(Tail(pieces))

MarkedTexts == {Concat(ps) : ps \in UNION {[1..k -> Pieces] : k \in 0..MaxPieces}}

\* the start and end markers isRegionCommented is called with
RegionMarkers == {<<>>, <<"%", "%">>, <<"/", "/">>, <<"-", "-", ">">>}

InitUtils ==
    /\ input \in Texts \cup MarkedTexts
    /\ calls = <<>>
    /\ settings \in {c \in Configurations : c.additionalMarkers = <<>> /\ ~c.wordOnlyMode}
    /\ doc = <<<<>>>>
    /\ anchor = Pos(0, 0)
    /\ head = Pos(0, 0)
    /\ log = <<>>
    /\ plugin = Loaded(settings).plugin
    /\ host = Loaded(settings).host

\* the string the next call is handed
NextArg == IF calls = <<>> THEN input ELSE calls[Len(calls)].value

NormalizeCall ==
    /\ Len(calls) < MaxCalls
    /\ \A i \in 1..Len(calls) : calls[i].fn = "normalize"
    /\ calls' = Append(calls, [fn |-> "normalize", arg |-> NextArg,
                               value |-> normalize(NextArg)])
    /\ UNCHANGED <<doc, anchor, head, settings, log, input, plugin, host>>

DetectFallbackCall ==
    /\ calls = <<>>
    /\ calls' = <<[fn |-> "detectFallback", arg |-> input, value |-> detectFallback(input)]>>
    /\ UNCHANGED <<doc, anchor, head, settings, log, input, plugin, host>>

IsRegionCommentedCall ==
    /\ calls = <<>>
    /\ \E start \in RegionMarkers, end \in RegionMarkers :
          calls' = <<[fn |-> "isRegionCommented",
                      arg |-> [text |-> input, start |-> start, end |-> end],
                      value |-> isRegionCommented(input, start, end)]>>
    /\ UNCHANGED <<doc, anchor, head, settings, log, input, plugin, host>>

NextUtils == NormalizeCall \/ DetectFallbackCall \/ IsRegionCommentedCall

SpecUtils == InitUtils /\ [][NextUtils]_vars

(***************************************************************************)
(* insertComment: the method of the CommentFormatPlugin class modelled     *)
(* here (src/src/main.ts 753-776) and the method of the same name in the   *)
(* built bundle (src/main.js 69-87).                                       *)
(***************************************************************************)
\* String.prototype.replace(pattern, by) with a string pattern: the first occurrence only
ReplaceFirst(str, pattern, by) ==
    LET At(i) == IF i = -1 THEN str
                 ELSE Slice(str, 0, i) \o by \o SliceFrom(str, i + Len(pattern))
    IN  At(IndexOf(str, pattern, 0))

\* the position insertComment hands to setCursor
InsertCursor(from, lines, extra) ==
    Pos(from.line + Len(lines) - 1,
        (IF Len(lines) - 1 # 0 THEN 0 ELSE from.ch) + Len(lines[Len(lines)]) + extra)

insertComment(ed, template) ==
    LET Insert(before, after) ==
            SetCursor(ReplaceSelection(ed,
                          ReplaceFirst(ReplaceWhitespaceRuns(before \o <<SP, SP>> \o after),
                                       <<SP>>, <<SP>> \o CursorTag \o <<SP>>)),
                      InsertCursor(GetCursor(ed), Split(before), 1))
        At(cursorIndex) ==
            IF cursorIndex = -1 THEN ReplaceSelection(ed, template)
            ELSE Insert(Trim(Slice(template, 0, cursorIndex)),
                        Trim(SliceFrom(template, cursorIndex + Len(CursorTag))))
    IN  At(IndexOf(template, CursorTag, 0))

insertCommentJs(ed, template) ==
    LET Insert(before, after) ==
            SetCursor(ReplaceSelection(ed, before \o after),
                      InsertCursor(GetCursor(ed), Split(before), 0))
        At(cursorIndex) ==
            IF cursorIndex = -1 THEN ReplaceSelection(ed, template)
            ELSE Insert(Slice(template, 0, cursorIndex),
                        SliceFrom(template, cursorIndex + Len(CursorTag)))
    IN  At(IndexOf(template, CursorTag, 0))

\* the templates insertComment is run with
InsertTemplates ==
    { Template(<<"%", SP>>, <<SP, "%">>),
      Template(<<"%">>, <<"%">>),
      Template(<<"%", NL>>, <<NL, "%">>),
      Template(<<"%", NL, "%">>, <<>>),
      <<"%", "%">> }

InitInsert ==
    /\ settings \in {[template |-> t, wordOnlyMode |-> FALSE, additionalMarkers |-> <<>>] :
                        t \in InsertTemplates}
    /\ doc \in Documents
    /\ anchor \in Positions(doc)
    /\ head \in Positions(doc)
    /\ log = <<>>
    /\ input = <<>>
    /\ calls = <<>>
    /\ plugin = Loaded(settings).plugin
    /\ host = Loaded(settings).host

\* one run of an insertComment method on the editor
InsertRun(fn, after) ==
    /\ calls = <<>>
    /\ doc' = after.doc /\ anchor' = after.anchor /\ head' = after.head
    /\ calls' = <<[fn |-> fn, arg |-> editor, value |-> after]>>
    /\ UNCHANGED <<settings, log, input, plugin, host>>

\* the command "insert-comment" with the method of src/src/main.ts
InsertCommentCommand ==
    \E after \in {insertComment(editor, settings.template)} : InsertRun("insertComment", after)

\* the command "insert-comment" with the method of the bundle src/main.js
InsertCommentJsCommand ==
    \E after \in {insertCommentJs(editor, settings.template)} :
        InsertRun("insertCommentJs", after)

NextInsert == InsertCommentCommand \/ InsertCommentJsCommand

SpecInsert == InitInsert /\ [][NextInsert]_vars

(***************************************************************************)
(* The editor-change listener (src/src/main.ts 615-621) and                *)
(* handleEditorChange (624-676).  A toggleComment call in progress is a    *)
(* frame of host.stack: who started it (the listener or the command) and   *)
(* how far it is (at its entry, after its edit call, done).  The change    *)
(* event an edit call raises reaches the listener either at once, inside   *)
(* the running call, or after the calls in progress have returned.         *)
(***************************************************************************)
isAtMarkerBoundary(sel, marker, line, from, to) ==
    /\ marker # <<>>
    /\ \/ from >= 0 /\ from <= Len(marker) /\ Slice(line, from - Len(marker), from) = marker
       \/ to >= 0 /\ to <= Len(line) /\ Slice(line, to, to + Len(marker)) = marker
       \/ /\ sel # <<>>
          /\ \E i \in 1..(Len(marker) - 1) :
                \/ StartsWith(sel, Slice(marker, 0, i))
                \/ EndsWith(sel, SliceFrom(marker, -i))

\* the value of shouldCleanup that handleEditorChange computes
shouldCleanup(ed, template) ==
    LET Partial(markerStart, markerEnd, lineText, ch, before, after) ==
            \/ /\ markerStart # <<>> /\ before # <<>>
               /\ StartsWith(markerStart, before)
               /\ Len(before) < Len(markerStart)
               /\ ch <= Len(markerStart)
            \/ /\ markerEnd # <<>> /\ after # <<>>
               /\ EndsWith(markerEnd, after)
               /\ Len(after) < Len(markerEnd)
               /\ ch >= Len(lineText) - Len(markerEnd)
        Check(selection, cursor, from, to, lineText, markerStart, markerEnd) ==
            IF selection # <<>>
            THEN \/ isAtMarkerBoundary(selection, markerStart, lineText, from.ch, to.ch)
                 \/ isAtMarkerBoundary(selection, markerEnd, lineText, from.ch, to.ch)
            ELSE Partial(markerStart, markerEnd, lineText, cursor.ch,
                         Slice(lineText, Max(0, cursor.ch - Len(markerStart)), cursor.ch),
                         Slice(lineText, cursor.ch, cursor.ch + Len(markerEnd)))
        With(cursorIndex) ==
            Check(GetSelection(ed), GetCursor(ed), CursorFrom(ed), CursorTo(ed),
                  GetLine(ed.doc, GetCursor(ed).line),
                  Slice(template, 0, cursorIndex),
                  SliceFrom(template, cursorIndex + Len(CursorTag)))
    IN  With(IndexOf(template, CursorTag, 0))

\* handleEditorChange goes on to toggleComment without looking at the guard
StartsCleanup_Unguarded(should, guard) == should

\* handleEditorChange goes on to toggleComment: shouldCleanup holds and the guard is clear
StartsCleanup(should, guard) == should /\ ~guard

\* one-line documents, as handleEditorChange reads the line of the cursor only
ListenerDocuments == {<<l>> : l \in Lines(MaxListenerLineLen)}

InitListener ==
    /\ settings \in Configurations
    /\ doc \in ListenerDocuments
    /\ anchor \in Positions(doc)
    /\ head \in Positions(doc)
    /\ log = <<>>
    /\ input = <<>>
    /\ calls = <<>>
    /\ plugin = Loaded(settings).plugin
    /\ host = Loaded(settings).host

Frame(by, at) == [by |-> by, at |-> at]
Top == host.stack[Len(host.stack)]
\* the stack with its top frame moved on to at
Moved(at) == [host.stack EXCEPT ![Len(host.stack)].at = at]
Popped == SubSeq(host.stack, 1, Len(host.stack) - 1)

\* the listener is handed a change event for which it computes shouldCleanup as should, with
\* the stack and the pending events as given: it sets the guard and enters toggleComment,
\* or returns
Deliver(should, stack, pending) ==
    \E starts \in {StartsCleanup(should, plugin.cleanupGuard)} :
        /\ plugin' = [plugin EXCEPT !.cleanupGuard = starts \/ @]
        /\ host' = [host EXCEPT
                      !.stack = IF starts THEN Append(stack, Frame("listener", "entry"))
                                ELSE stack,
                      !.pending = pending]
        /\ calls' = Append(calls, [fn |-> "handleEditorChange", value |-> starts])

\* the user changes the text: a change event while no toggle is in progress
UserChange ==
    /\ host.stack = <<>>
    /\ Len(calls) < MaxEvents
    /\ Deliver(shouldCleanup(editor, settings.template), host.stack, host.pending)
    /\ UNCHANGED <<doc, anchor, head, settings, log, input>>

\* a change event raised earlier by an edit call is delivered
DeliverPending ==
    /\ host.stack = <<>>
    /\ host.pending > 0
    /\ Deliver(shouldCleanup(editor, settings.template), host.stack, host.pending - 1)
    /\ UNCHANGED <<doc, anchor, head, settings, log, input>>

\* the user runs the command "toggle-comment-template"
CommandToggle ==
    /\ host.stack = <<>>
    /\ Len(log) < MaxToggles
    /\ host' = [host EXCEPT !.stack = <<Frame("command", "entry")>>]
    /\ UNCHANGED <<doc, anchor, head, settings, log, input, calls, plugin>>

\* the toggleComment call on top of the stack runs
ToggleRuns ==
    /\ host.stack # <<>>
    /\ Len(log) < MaxToggles
    /\ \E o \in {Invoke(editor, NoMarkerSet, settings, log)} :
       \E m \in {DeriveMarkers(NoMarkerSet, settings.template)} :
          /\ Top.at = "entry"
          /\ doc' = o.ed.doc /\ anchor' = o.ed.anchor /\ head' = o.ed.head
          /\ log' = Append(log, [pre     |-> editor,
                                 markerSet |-> NoMarkerSet,
                                 markers |-> m,
                                 target  |-> ResolveTarget(editor, settings.wordOnlyMode),
                                 located |-> Detect(editor, m.start, m.end),
                                 path    |-> o.path,
                                 handed  |-> o.handed,
                                 edits   |-> o.edits])
          /\ host' = [host EXCEPT !.stack = Moved(IF o.edits > 0 THEN "edited" ELSE "done")]
    /\ UNCHANGED <<settings, input, calls, plugin>>

\* the change event of the edit call reaches the listener inside the running call, with
\* the selection the edit call left
NestedChange ==
    /\ host.stack # <<>>
    /\ \E a \in Positions(doc), h \in Positions(doc) :
          /\ Top.at = "edited"
          /\ Deliver(shouldCleanup([doc |-> doc, anchor |-> a, head |-> h], settings.template),
                     Moved("done"), host.pending)
    /\ UNCHANGED <<doc, anchor, head, settings, log, input>>

\* the change event of the edit call is delivered later
DeferChange ==
    /\ host.stack # <<>>
    /\ \E stack \in {Moved("done")} :
          /\ Top.at = "edited"
          /\ host' = [host EXCEPT !.stack = stack, !.pending = @ + 1]
    /\ UNCHANGED <<doc, anchor, head, settings, log, input, calls, plugin>>

\* the call on top of the stack leaves: the finally block of a listener call clears the guard
Leaves ==
    /\ plugin' = [plugin EXCEPT !.cleanupGuard = IF Top.by = "listener" THEN FALSE ELSE @]
    /\ host' = [host EXCEPT !.stack = Popped]
    /\ UNCHANGED <<doc, anchor, head, settings, log, input, calls>>

ToggleReturns == host.stack # <<>> /\ (\E at \in {Top.at} : at = "done") /\ Leaves

\* toggleComment throws before it has edited
ToggleThrows == host.stack # <<>> /\ (\E at \in {Top.at} : at = "entry") /\ Leaves

NextListener ==
    \/ UserChange \/ DeliverPending \/ CommandToggle \/ ToggleRuns
    \/ NestedChange \/ DeferChange \/ ToggleReturns \/ ToggleThrows

SpecListener == InitListener /\ [][NextListener]_vars

(***************************************************************************)
(* The marker sets of the settings tab (src/src/settingsTab.ts 94-154) and *)
(* the command "reload-marker-commands" (src/src/main.ts 607-611).  The    *)
(* callback of a marker command holds the marker set it was registered     *)
(* with; the start and end texts of a set are not edited here, so the set  *)
(* a callback holds is given by its value.                                 *)
(***************************************************************************)
MarkerSetValues ==
    {[start |-> p[1], end |-> p[2], registerCommand |-> r] :
        p \in {<<<<"<">>, <<">">>>>, <<<<"%", "%">>, <<"%", "%">>>>}, r \in BOOLEAN}

MarkerSetLists == UNION {[1..n -> MarkerSetValues] : n \in 0..MaxMarkerSets}

\* array.splice(idx, 1), idx counted from 1
Splice1(array, idx) == SubSeq(array, 1, idx - 1) \o SubSeq(array, idx + 1, Len(array))

InitCommands ==
    /\ settings \in {[template |-> Template(<<"%", SP>>, <<SP, "%">>), wordOnlyMode |-> FALSE,
                      additionalMarkers |-> sets] : sets \in MarkerSetLists}
    /\ doc = <<<<>>>>
    /\ anchor = [line |-> 0, ch |-> 0]
    /\ head = [line |-> 0, ch |-> 0]
    /\ log = <<>>
    /\ input = <<>>
    /\ calls = <<>>
    /\ plugin = Loaded(settings).plugin
    /\ host = Loaded(settings).host

\* this.plugin.registerMarkerCommands() once the settings have become s
Reregister(s) ==
    \E reg \in {registerMarkerCommands(host.commands, s)} :
        /\ settings' = s
        /\ plugin' = [plugin EXCEPT !.markerCommandIds = reg.ids]
        /\ host' = [host EXCEPT !.commands = reg.commands]

\* the button "Add marker set": the commands are not registered again
AddMarkerSet ==
    /\ Len(calls) < MaxSettingsChanges
    /\ Len(settings.additionalMarkers) < MaxMarkerSets
    /\ settings' = [settings EXCEPT !.additionalMarkers =
                        Append(@, [start |-> <<>>, end |-> <<>>, registerCommand |-> FALSE])]
    /\ calls' = Append(calls, [fn |-> "addMarkerSet", arg |-> 0])
    /\ UNCHANGED <<doc, anchor, head, log, input, plugin, host>>

\* the button "Remove marker set" of the set at idx
RemoveMarkerSet ==
    /\ Len(calls) < MaxSettingsChanges
    /\ \E idx \in 1..Len(settings.additionalMarkers) :
          /\ Reregister([settings EXCEPT !.additionalMarkers = Splice1(@, idx)])
          /\ calls' = Append(calls, [fn |-> "removeMarkerSet", arg |-> idx])
    /\ UNCHANGED <<doc, anchor, head, log, input>>

\* the toggle of the set at idx is switched to value
ToggleRegister ==
    /\ Len(calls) < MaxSettingsChanges
    /\ \E idx \in 1..Len(settings.additionalMarkers), value \in BOOLEAN :
          /\ settings.additionalMarkers[idx].registerCommand # value
          /\ Reregister([settings EXCEPT !.additionalMarkers[idx].registerCommand = value])
          /\ calls' = Append(calls, [fn |-> "toggleRegister", arg |-> idx])
    /\ UNCHANGED <<doc, anchor, head, log, input>>

\* the command "reload-marker-commands": registerMarkerCommands(true)
ReloadMarkerCommands ==
    /\ Len(calls) < MaxSettingsChanges
    /\ Reregister(settings)
    /\ calls' = Append(calls, [fn |-> "reloadMarkerCommands", arg |-> 0])
    /\ UNCHANGED <<doc, anchor, head, log, input>>

NextCommands == AddMarkerSet \/ RemoveMarkerSet \/ ToggleRegister \/ ReloadMarkerCommands

SpecCommands == InitCommands /\ [][NextCommands]_vars

(***************************************************************************)
(* The toggle commands under templates of every shape (no placeholder,     *)
(* two placeholders, blanks around the markers, empty markers) and marker  *)
(* sets with blanks around their markers, on one-line documents with a     *)
(* bare cursor.                                                            *)
(***************************************************************************)
MarkerTemplates ==
    { Template(<<"%", SP>>, <<SP, "%">>),
      Template(<<SP, "%">>, <<>>),
      Template(<<>>, <<>>),
      Template(<<"%">>, CursorTag \o <<"%">>),
      <<"%", "%">>,
      <<SP, "%", SP>> }

MarkerSetsOffered ==
    { <<>>,
      <<[start |-> <<"<">>, end |-> <<">">>, registerCommand |-> TRUE]>>,
      <<[start |-> <<SP, "<">>, end |-> <<">", SP>>, registerCommand |-> TRUE]>>,
      <<[start |-> <<"%">>, end |-> <<>>, registerCommand |-> TRUE]>> }

InitMarkers ==
    /\ settings \in [template : MarkerTemplates, wordOnlyMode : {FALSE},
                     additionalMarkers : MarkerSetsOffered]
    /\ doc \in ListenerDocuments
    /\ anchor \in Positions(doc)
    /\ head = anchor
    /\ log = <<>>
    /\ input = <<>>
    /\ calls = <<>>
    /\ plugin = Loaded(settings).plugin
    /\ host = Loaded(settings).host

SpecMarkers == InitMarkers /\ [][Next]_vars

(***************************************************************************)
(* The toggle commands with a start marker and an end marker that differ,  *)
(* on documents written with the marker characters, with a bare cursor.    *)
(***************************************************************************)
DistinctSettings ==
    [template |-> Template(<<"<">>, <<">">>), wordOnlyMode |-> FALSE,
     additionalMarkers |-> <<[start |-> <<"<", "<">>, end |-> <<">">>, registerCommand |-> TRUE]>>]

DistinctLines(n) == UNION {[1..k -> {"a", "<", ">"}] : k \in 0..n}

DistinctDocuments ==
    {<<l>> : l \in DistinctLines(MaxLineLen)}
      \cup {<<l[1], l[2]>> : l \in {x \in DistinctLines(MaxTwoLineLen) \X DistinctLines(MaxTwoLineLen) :
                                        Len(x[1]) + Len(x[2]) <= MaxTwoLineLen}}

InitDistinct ==
    /\ settings = DistinctSettings
    /\ doc \in DistinctDocuments
    /\ anchor \in Positions(doc)
    /\ head = anchor
    /\ log = <<>>
    /\ input = <<>>
    /\ calls = <<>>
    /\ plugin = Loaded(settings).plugin
    /\ host = Loaded(settings).host

SpecDistinct == InitDistinct /\ [][Next]_vars

(***************************************************************************)
(* Vocabulary of the properties.                                           *)
(***************************************************************************)
Called == Len(log) > 0
Last == log[Len(log)]

\* the text of the document does not hold the marker pair
HoldsNoMarker(d, m) ==
    /\ ~Includes(Join(d), m.start)
    /\ m.end = <<>> \/ ~Includes(Join(d), m.end)

SameRange(e1, e2) == CursorFrom(e1) = CursorFrom(e2) /\ CursorTo(e1) = CursorTo(e2)

\* the document of e with the characters from..to replaced by text
Replaced(e, text, from, to) == ReplaceText(e.doc, text, from, to)

(***************************************************************************)
(* C1  Round trip: on a document that holds no marker, with a non-empty    *)
(* start marker, a toggle that inserts followed by a second toggle with    *)
(* the same markers restores the document text and the cursor / selection  *)
(* range exactly.                                                          *)
(***************************************************************************)
C1_RoundTripRestores ==
    ( /\ Len(log) = 2
      /\ log[1].markers = log[2].markers
      /\ log[1].markers.start # <<>>
      /\ HoldsNoMarker(log[1].pre.doc, log[1].markers)
      /\ log[1].path = "insert" )
    => /\ doc = log[1].pre.doc
       /\ SameRange(editor, log[1].pre)

(***************************************************************************)
(* C2  With an empty start marker in effect a toggle changes neither the   *)
(* document nor the cursor nor the selection.                              *)
(***************************************************************************)
C2_EmptyStartIsNoOp ==
    (Called /\ Last.markers.start = <<>>) =>
        /\ doc = Last.pre.doc
        /\ SameRange(editor, Last.pre)

(***************************************************************************)
(* C3  Boundary clamp: every position a toggle hands to setCursor or       *)
(* setSelection, and the cursor and selection ends the editor is left      *)
(* with, address a line of the resulting document and a column within it.  *)
(***************************************************************************)
C3_BoundaryClamp ==
    Called =>
        /\ \A i \in 1..Len(Last.handed) : ValidPos(doc, Last.handed[i])
        /\ ValidPos(doc, anchor)
        /\ ValidPos(doc, head)

\* a selection across two lines was wrapped and its computed end column clamped to the line
C3_Witness ==
    /\ Called
    /\ Last.path = "insert"
    /\ Last.target.kind = "selection"
    /\ Last.target.from.line # Last.target.to.line
    /\ Len(Last.handed) = 2
    /\ Last.handed[2].ch = Len(GetLine(doc, Last.handed[2].line))

(***************************************************************************)
(* The markers a removal located, as offsets into the text of the          *)
(* document before the call, and the separator spaces that belong to them. *)
(***************************************************************************)
StartOff(c) == PosToOffset(c.pre.doc, c.located.startPos)
EndOff(c) == PosToOffset(c.pre.doc, c.located.endPos)

\* both located positions hold their marker and the start marker ends before the end marker
LocatedPair(c) ==
    LET v == Join(c.pre.doc)
    IN  /\ c.located.startPos # NoPos /\ c.located.endPos # NoPos
        /\ ValidPos(c.pre.doc, c.located.startPos) /\ ValidPos(c.pre.doc, c.located.endPos)
        /\ Substr(v, StartOff(c), Len(c.markers.start)) = c.markers.start
        /\ Substr(v, EndOff(c), Len(c.markers.end)) = c.markers.end
        /\ StartOff(c) + Len(c.markers.start) <= EndOff(c)

\* end of the start marker and of the single space after it, if that space is there
StartSpanEnd(c) ==
    LET v == Join(c.pre.doc)
        e == StartOff(c) + Len(c.markers.start)
    IN  IF e < EndOff(c) /\ v[e + 1] = SP THEN e + 1 ELSE e

\* start of the end marker or of the single space before it, if that space is there
EndSpanStart(c) ==
    LET v == Join(c.pre.doc)
    IN  IF EndOff(c) - 1 >= StartSpanEnd(c) /\ v[EndOff(c)] = SP THEN EndOff(c) - 1 ELSE EndOff(c)

TextBefore(c) == Slice(Join(c.pre.doc), 0, StartOff(c))
TextBetween(c) == Slice(Join(c.pre.doc), StartSpanEnd(c), EndSpanStart(c))
TextAfter(c) == SliceFrom(Join(c.pre.doc), EndOff(c) + Len(c.markers.end))

(***************************************************************************)
(* C4  Remove path: the resulting document is the original with exactly    *)
(* the located start marker and the single space after it (if present)     *)
(* and the located end marker and the single space before it (if present)  *)
(* deleted, on one line or across lines, with or without adjacent spaces.  *)
(***************************************************************************)
C4_RemoveDeletesExactlyMarkers ==
    (Called /\ Last.path = "remove" /\ LocatedPair(Last)) =>
        Join(doc) = TextBefore(Last) \o TextBetween(Last) \o TextAfter(Last)

(***************************************************************************)
(* C5  Non-interference: a toggle leaves every character outside the       *)
(* edited span unchanged: outside the replaced target range on an insert   *)
(* or uncomment, outside the located markers and their separator spaces    *)
(* on a removal, and the whole document on the paths that edit nothing.    *)
(***************************************************************************)
C5_NonInterference ==
    Called =>
        LET v == Join(Last.pre.doc)
            w == Join(doc)
            fromOff == PosToOffset(Last.pre.doc, Last.target.from)
            tail == SliceFrom(v, PosToOffset(Last.pre.doc, Last.target.to))
        IN  IF Last.path \in {"insert", "uncomment"}
            THEN /\ Len(w) >= fromOff + Len(tail)
                 /\ Slice(w, 0, fromOff) = Slice(v, 0, fromOff)
                 /\ SliceFrom(w, Len(w) - Len(tail)) = tail
            ELSE IF Last.path = "remove"
            THEN LocatedPair(Last) =>
                    /\ Len(w) >= Len(TextBefore(Last)) + Len(TextBetween(Last)) + Len(TextAfter(Last))
                    /\ StartsWith(w, TextBefore(Last))
                    /\ EndsWith(w, TextAfter(Last))
                    /\ \E k \in Len(TextBefore(Last))..(Len(w) - Len(TextAfter(Last))) :
                          /\ k + Len(TextBetween(Last)) <= Len(w) - Len(TextAfter(Last))
                          /\ Substr(w, k, Len(TextBetween(Last))) = TextBetween(Last)
            ELSE IF Last.path = "removalInsideEdit"
            THEN \A l \in 0..(Len(Last.pre.doc) - 1) :
                    l # Last.target.from.line =>
                        /\ l < Len(doc)
                        /\ GetLine(doc, l) = GetLine(Last.pre.doc, l)
            ELSE w = v

NothingLocated(c) ==
    LET enhanced == c.target.kind = "selection" /\ c.markers.start # <<>> /\ c.markers.end # <<>>
    IN  /\ ~(enhanced /\ ~AtMarkerBoundary(GetLine(c.pre.doc, CursorFrom(c.pre).line),
                                           CursorFrom(c.pre), CursorTo(c.pre),
                                           c.markers.start, c.markers.end))
        /\ ~(c.located.isComment /\ c.located.startPos # NoPos /\ c.located.endPos # NoPos)
        /\ ~RemovalInside(c.pre, c.target, c.markers.start, c.markers.end).inside
        /\ ~InsideExact(c.target.text, c.markers.start, c.markers.end)
        /\ ~stripCommented(c.target.text, c.markers.start, c.markers.end).ok

C8_SelectionWrapped ==
    ( /\ Called
      /\ Last.target.kind = "selection"
      /\ Last.markers.start # <<>>
      /\ Trim(Last.target.text) = Last.target.text
      /\ HoldsNoMarker(Last.pre.doc, Last.markers) ) =>
        LET fromOff == PosToOffset(Last.pre.doc, Last.target.from)
            inner == fromOff + Len(Last.markers.start) + 1
        IN  /\ doc = Replaced(Last.pre, Last.markers.start \o <<SP>> \o Last.target.text
                                          \o <<SP>> \o Last.markers.end,
                              Last.target.from, Last.target.to)
            /\ PosToOffset(doc, CursorFrom(editor)) = inner
            /\ PosToOffset(doc, CursorTo(editor)) = inner + Len(Last.target.text)

\* text without the marker at each end and the single space next to each marker
InnerText(text, markerStart, markerEnd) ==
    LET t0 == Slice(text, Len(markerStart), Len(text) - Len(markerEnd))
        t1 == IF Len(t0) > 0 /\ t0[1] = SP THEN SliceFrom(t0, 1) ELSE t0
    IN  IF Len(t1) > 0 /\ t1[Len(t1)] = SP THEN Slice(t1, 0, Len(t1) - 1) ELSE t1

(***************************************************************************)
(* C9  A selection that covers a wrapped region exactly (it begins with    *)
(* the start marker and ends with the end marker): the toggle removes      *)
(* both markers and the single space next to each, leaving the inner       *)
(* text, and the new selection covers exactly that inner text.             *)
(***************************************************************************)
C9_ExactSelectionUnwrapped ==
    ( /\ Called
      /\ Last.target.kind = "selection"
      /\ Last.markers.start # <<>> /\ Last.markers.end # <<>>
      /\ Len(Last.target.text) >= Len(Last.markers.start) + Len(Last.markers.end)
      /\ StartsWith(Last.target.text, Last.markers.start)
      /\ EndsWith(Last.target.text, Last.markers.end)
      /\ HoldsNoMarker(<<InnerText(Last.target.text, Last.markers.start, Last.markers.end)>>,
                       Last.markers) ) =>
        LET inner == InnerText(Last.target.text, Last.markers.start, Last.markers.end)
            fromOff == PosToOffset(Last.pre.doc, Last.target.from)
        IN  /\ doc = Replaced(Last.pre, inner, Last.target.from, Last.target.to)
            /\ PosToOffset(doc, CursorFrom(editor)) = fromOff
            /\ PosToOffset(doc, CursorTo(editor)) = fromOff + Len(inner)

\* line holds exactly one pair of m around an inner text that holds no marker
IsWrappedLine(line, m) ==
    /\ Len(line) > Len(m.start) + Len(m.end)
    /\ StartsWith(line, m.start)
    /\ EndsWith(line, m.end)
    /\ HoldsNoMarker(<<Slice(line, Len(m.start), Len(line) - Len(m.end))>>, m)

\* call c was made on two wrapped lines with a selection inside the second pair
SelectionInSecondPair(c) ==
    /\ Len(c.pre.doc) = 2
    /\ c.markers.start # <<>> /\ c.markers.end # <<>>
    /\ IsWrappedLine(c.pre.doc[1], c.markers)
    /\ IsWrappedLine(c.pre.doc[2], c.markers)
    /\ c.target.kind = "selection"
    /\ c.target.from.line = 1 /\ c.target.to.line = 1
    /\ c.target.from.ch >= Len(c.markers.start)
    /\ c.target.to.ch <= Len(c.pre.doc[2]) - Len(c.markers.end)

(***************************************************************************)
(* C10  Two marker pairs on different lines and a selection inside the     *)
(* second pair: the toggle removes the markers of the second pair (with    *)
(* their separator spaces) and nothing else; the line of the first pair    *)
(* is left as it was.                                                      *)
(***************************************************************************)
C10_OnlySecondPairRemoved ==
    (Len(log) = 1 /\ SelectionInSecondPair(log[1])) =>
        /\ Len(doc) = 2
        /\ doc[1] = log[1].pre.doc[1]
        /\ doc[2] = InnerText(log[1].pre.doc[2], log[1].markers.start, log[1].markers.end)

(***************************************************************************)
(* C11  Remove path, cursor: after a removal the cursor stays on its line  *)
(* and its new column is the old column minus the number of characters    *)
(* removed before it on that line (none when the start marker lies on an  *)
(* earlier line), clamped to the length of the shortened line.            *)
(***************************************************************************)
\* offsets of the characters a removal of the located pair takes out of the document
RemovedOffsets(c) ==
    (StartOff(c) .. StartSpanEnd(c) - 1)
        \cup (EndSpanStart(c) .. EndOff(c) + Len(c.markers.end) - 1)

\* the number of removed characters before the cursor on the cursor's own line
RemovedBeforeCursor(c) ==
    LET from == CursorFrom(c.pre)
    IN  Cardinality(RemovedOffsets(c)
                        \cap (PosToOffset(c.pre.doc, Pos(from.line, 0))
                                .. PosToOffset(c.pre.doc, from) - 1))

\* the removal took out exactly the located markers and their separator spaces
RemovedExactly(c) ==
    /\ c.path = "remove"
    /\ LocatedPair(c)
    /\ Join(doc) = TextBefore(c) \o TextBetween(c) \o TextAfter(c)

C11_CursorShiftedByRemoved ==
    (Called /\ RemovedExactly(Last)) =>
        LET from == CursorFrom(Last.pre)
        IN  /\ head = anchor
            /\ head = Pos(from.line,
                          Min(from.ch - RemovedBeforeCursor(Last),
                              Len(GetLine(doc, from.line))))

(***************************************************************************)
(* C12  normalize is idempotent: normalizing a normalized string gives     *)
(* that string back.                                                       *)
(***************************************************************************)
C12_NormalizeIdempotent ==
    \A i \in 2..Len(calls) :
        (calls[i].fn = "normalize" /\ calls[i - 1].fn = "normalize") =>
            calls[i].value = calls[i - 1].value

\* normalize ran twice on a string with a run of whitespace between two words
C12_Witness ==
    /\ Len(calls) = 2
    /\ calls[1].fn = "normalize" /\ calls[2].fn = "normalize"
    /\ calls[1].value # input
    /\ \E i \in 2..(Len(input) - 2) :
          /\ input[i - 1] \notin Whitespace
          /\ input[i] \in Whitespace /\ input[i + 1] \in Whitespace
          /\ \E j \in (i + 2)..Len(input) : input[j] \notin Whitespace

(***************************************************************************)
(* C13  A normalized string holds no whitespace character but the space,   *)
(* no two spaces in a row and no space at either end, and its other        *)
(* characters are those of the argument in the same order.                 *)
(***************************************************************************)
NonWhitespace(str) == SelectSeq(str, LAMBDA c : c \notin Whitespace)

C13_NormalizedShape ==
    \A i \in 1..Len(calls) :
        calls[i].fn = "normalize" =>
            LET s == calls[i].value
            IN  /\ \A k \in 1..Len(s) : s[k] \in Whitespace => s[k] = SP
                /\ \A k \in 1..(Len(s) - 1) : ~(s[k] = SP /\ s[k + 1] = SP)
                /\ s # <<>> => (s[1] # SP /\ s[Len(s)] # SP)
                /\ NonWhitespace(s) = NonWhitespace(calls[i].arg)

\* normalize ran on a string that starts with whitespace and holds a tab or line break
\* between two different word characters
C13_Witness ==
    /\ Len(calls) >= 1
    /\ calls[1].fn = "normalize"
    /\ Len(calls[1].arg) = MaxTextLen
    /\ calls[1].arg[1] \in Whitespace
    /\ \E i \in 3..(Len(calls[1].arg) - 1) :
          /\ calls[1].arg[i] \in {TAB, NL}
          /\ calls[1].arg[i - 1] = "a" /\ calls[1].arg[i + 1] = "b"
    /\ Len(calls[1].value) = 3

(***************************************************************************)
(* C14  Target resolution: a non-empty selection is the target verbatim;   *)
(* without one, the maximal run of word characters that contains or        *)
(* touches the cursor is the target when the cursor is strictly inside it, *)
(* or when wordOnlyMode is set and the cursor is at one of its ends; in    *)
(* every other case the target is the zero-width cursor position.          *)
(***************************************************************************)
\* the columns the word characters around column ch of the line reach to
WordLeft(line, ch) ==
    Least({s \in 0..ch : \A i \in (s + 1)..ch : line[i] \in WordChars})
WordRight(line, ch) ==
    Greatest({e \in ch..Len(line) : \A i \in (ch + 1)..e : line[i] \in WordChars})

C14_TargetResolution ==
    Called =>
        LET ed == Last.pre
            cursor == GetCursor(ed)
            line == GetLine(ed.doc, cursor.line)
            s == WordLeft(line, cursor.ch)
            e == WordRight(line, cursor.ch)
        IN  IF GetSelection(ed) # <<>>
            THEN Last.target = [kind |-> "selection", text |-> GetSelection(ed),
                                from |-> CursorFrom(ed), to |-> CursorTo(ed)]
            ELSE IF s < e /\ (\/ s < cursor.ch /\ cursor.ch < e
                              \/ settings.wordOnlyMode)
            THEN Last.target = [kind |-> "word", text |-> SubSeq(line, s + 1, e),
                                from |-> Pos(cursor.line, s), to |-> Pos(cursor.line, e)]
            ELSE Last.target = [kind |-> "cursor", text |-> <<>>,
                                from |-> cursor, to |-> cursor]

\* word-only mode took the word that ends at the cursor
C14_Witness ==
    /\ Called
    /\ settings.wordOnlyMode
    /\ GetSelection(Last.pre) = <<>>
    /\ Last.target.kind = "word"
    /\ Len(Last.target.text) >= 2
    /\ GetCursor(Last.pre) = Last.target.to

(***************************************************************************)
(* C15  Detection miss leads to insertion: a toggle with a non-empty start *)
(* marker on a document that holds neither the markers in effect nor a     *)
(* marker of the default styles takes the insert path and leaves the       *)
(* target wrapped in the markers; the document does not stay as it was.    *)
(***************************************************************************)
\* the document holds no marker of the pair in effect or of a default style
HoldsNoPair(d, m) ==
    /\ HoldsNoMarker(d, m)
    /\ \A i \in 1..Len(defaultStyles) : HoldsNoMarker(d, defaultStyles[i])

\* the text w is the text v with the characters fromOff..toOff replaced by the marker
\* pair around the given text, leading and trailing whitespace aside
WrappedAt(v, w, fromOff, toOff, m, inner) ==
    LET tail == Len(v) - toOff
        mid == Slice(w, fromOff, Len(w) - tail)
    IN  /\ Len(w) >= fromOff + tail + Len(m.start) + Len(m.end)
        /\ Slice(w, 0, fromOff) = Slice(v, 0, fromOff)
        /\ SliceFrom(w, Len(w) - tail) = SliceFrom(v, toOff)
        /\ StartsWith(mid, m.start)
        /\ EndsWith(mid, m.end)
        /\ Trim(Slice(mid, Len(m.start), Len(mid) - Len(m.end))) = Trim(inner)

C15_MissLeadsToInsert ==
    ( /\ Called
      /\ Last.markers.start # <<>>
      /\ HoldsNoPair(Last.pre.doc, Last.markers) ) =>
        /\ Last.path = "insert"
        /\ doc # Last.pre.doc
        /\ WrappedAt(Join(Last.pre.doc), Join(doc),
                     PosToOffset(Last.pre.doc, Last.target.from),
                     PosToOffset(Last.pre.doc, Last.target.to),
                     Last.markers, Last.target.text)

C17_CursorDetectionOnOwnLine ==
    ( /\ Called
      /\ GetSelection(Last.pre) = <<>>
      /\ Last.located.isComment
      /\ Last.path \in {"remove", "removeSkipped"} ) =>
        /\ Last.located.startPos.line = GetCursor(Last.pre).line
        /\ Last.located.endPos.line = GetCursor(Last.pre).line

(***************************************************************************)
(* C18  Empty end marker: with a non-empty start marker and an empty end   *)
(* marker the start marker alone is enough for detection.  A toggle        *)
(* without a selection whose cursor stands after an occurrence of the      *)
(* start marker on its line locates a comment and removes that start       *)
(* marker; it does not insert another one.                                 *)
(***************************************************************************)
\* the start marker occurs on the cursor's line and ends at or before the cursor
StartMarkerBeforeCursor(c) ==
    LET cursor == GetCursor(c.pre)
        line == GetLine(c.pre.doc, cursor.line)
    IN  \E i \in 0..(cursor.ch - Len(c.markers.start)) :
            Substr(line, i, Len(c.markers.start)) = c.markers.start

C18_StartMarkerAloneDetected ==
    ( /\ Called
      /\ Last.markers.start # <<>>
      /\ Last.markers.end = <<>>
      /\ GetSelection(Last.pre) = <<>>
      /\ StartMarkerBeforeCursor(Last) ) =>
        /\ Last.path # "insert"
        /\ Len(Join(doc)) + Len(Last.markers.start) <= Len(Join(Last.pre.doc))

(***************************************************************************)
(* C19  Partial overlap of a selection: on a line that holds one marker    *)
(* pair, a selection that covers the start marker and part of the inner    *)
(* text, or part of the inner text and the end marker, makes the toggle    *)
(* locate that pair and remove its two markers, for identical and for      *)
(* distinct start and end markers.                                         *)
(***************************************************************************)
\* columns where marker occurs on the line
Occurrences(line, marker) ==
    {i \in 0..(Len(line) - Len(marker)) : Substr(line, i, Len(marker)) = marker}

\* column of the start marker of the only pair on the selection's line, -1 without one
PairStart(c) ==
    IndexOf(GetLine(c.pre.doc, CursorFrom(c.pre).line), c.markers.start, 0)

\* column of the end marker of that pair
PairEnd(c) ==
    IndexOf(GetLine(c.pre.doc, CursorFrom(c.pre).line), c.markers.end,
            PairStart(c) + Len(c.markers.start))

\* the line of the selection holds exactly one pair, with text between its markers
OnePairOnLine(c) ==
    LET line == GetLine(c.pre.doc, CursorFrom(c.pre).line)
    IN  /\ c.markers.start # <<>> /\ c.markers.end # <<>>
        /\ Len(c.pre.doc) = 1
        /\ PairStart(c) # -1 /\ PairEnd(c) # -1
        /\ PairEnd(c) > PairStart(c) + Len(c.markers.start)
        /\ Occurrences(line, c.markers.start) \cup Occurrences(line, c.markers.end)
              = {PairStart(c), PairEnd(c)}

\* the selection covers one marker of the pair and ends or starts inside the inner text
PartialOverlap(c) ==
    LET from == CursorFrom(c.pre)
        to == CursorTo(c.pre)
        innerFrom == PairStart(c) + Len(c.markers.start)
        innerTo == PairEnd(c)
    IN  /\ GetSelection(c.pre) # <<>>
        /\ \/ from.ch <= PairStart(c) /\ innerFrom < to.ch /\ to.ch < innerTo
           \/ innerFrom < from.ch /\ from.ch < innerTo
                /\ to.ch >= PairEnd(c) + Len(c.markers.end)

C19_PartialOverlapRemovesPair ==
    (Called /\ OnePairOnLine(Last) /\ PartialOverlap(Last)) =>
        /\ Last.located.isComment
        /\ Last.located.startPos = Pos(0, PairStart(Last))
        /\ Last.located.endPos = Pos(0, PairEnd(Last))
        /\ Last.path = "remove"
        /\ HoldsNoMarker(doc, Last.markers)

(***************************************************************************)
(* C20  After a removal a cursor without selection is left when the target *)
(* was a bare cursor or a word; when the target was a selection (here one  *)
(* inside the inner text of the removed pair) the same text is selected    *)
(* afterwards, at offsets shifted by the removed start marker.             *)
(***************************************************************************)
C20_RemoveRestoresCursorOrSelection ==
    (Called /\ RemovedExactly(Last)) =>
        LET fromOff == PosToOffset(Last.pre.doc, CursorFrom(Last.pre))
            toOff == PosToOffset(Last.pre.doc, CursorTo(Last.pre))
        IN  IF Last.target.kind # "selection"
            THEN anchor = head
            ELSE (StartSpanEnd(Last) <= fromOff /\ toOff <= EndSpanStart(Last)) =>
                    /\ GetSelection(editor) = GetSelection(Last.pre)
                    /\ PosToOffset(doc, CursorFrom(editor))
                          = fromOff - (StartSpanEnd(Last) - StartOff(Last))

(***************************************************************************)
(* C21  Identical markers, no counting: with the start marker equal to the *)
(* end marker, a toggle without a selection that has a marker occurrence   *)
(* before the cursor and one at or after it takes the nearest of each as   *)
(* the pair, whatever the number of markers further away, treats the       *)
(* cursor as commented and removes those two markers.                      *)
(***************************************************************************)
\* positions in the document where the marker occurs
MarkerPositions(d, marker) ==
    {p \in [line : 0..(Len(d) - 1), ch : 0..MaxOfLens(d)] :
        /\ p.ch + Len(marker) <= Len(d[p.line + 1])
        /\ Substr(d[p.line + 1], p.ch, Len(marker)) = marker}

\* the occurrences that start before the position, and those that start at or after it
MarkersBefore(d, marker, at) == {p \in MarkerPositions(d, marker) : p # at /\ PosLE(p, at)}
MarkersAfter(d, marker, at) == {p \in MarkerPositions(d, marker) : PosLE(at, p)}

\* the last and the first of a set of positions in document order
LastPos(S) == CHOOSE p \in S : \A q \in S : PosLE(q, p)
FirstPos(S) == CHOOSE p \in S : \A q \in S : PosLE(p, q)

\* identical markers, a bare cursor (no selection) with a marker on each side
BetweenIdenticalMarkers(c) ==
    /\ c.markers.start # <<>>
    /\ c.markers.start = c.markers.end
    /\ GetSelection(c.pre) = <<>>
    /\ MarkersBefore(c.pre.doc, c.markers.start, GetCursor(c.pre)) # {}
    /\ MarkersAfter(c.pre.doc, c.markers.end, GetCursor(c.pre)) # {}

\* the nearest marker on each side of the cursor is located as the pair
C21_NearestPairLocated ==
    (Called /\ BetweenIdenticalMarkers(Last)) =>
        /\ Last.located.isComment
        /\ Last.located.startPos
              = LastPos(MarkersBefore(Last.pre.doc, Last.markers.start, GetCursor(Last.pre)))
        /\ Last.located.endPos
              = FirstPos(MarkersAfter(Last.pre.doc, Last.markers.end, GetCursor(Last.pre)))

C21_NearestPairRemoved ==
    (Called /\ BetweenIdenticalMarkers(Last)) =>
        /\ C21_NearestPairLocated
        /\ Last.path = "remove"
        /\ Join(doc) = TextBefore(Last) \o TextBetween(Last) \o TextAfter(Last)

(***************************************************************************)
(* C22  detectFallback tries the default styles in their fixed order and   *)
(* the first that matches wins: it returns the first style whose start the *)
(* trimmed text starts with and whose end, when not empty, the trimmed     *)
(* text ends with; it returns not-found exactly when no style matches.     *)
(***************************************************************************)
\* the style matches the text: trimmed-text startsWith / endsWith
StyleMatches(str, style) ==
    /\ StartsWith(Trim(str), style.start)
    /\ style.end = <<>> \/ EndsWith(Trim(str), style.end)

C22_FirstMatchingStyle ==
    \A k \in 1..Len(calls) :
        calls[k].fn = "detectFallback" =>
            LET matching == {i \in 1..Len(defaultStyles) :
                                StyleMatches(calls[k].arg, defaultStyles[i])}
            IN  /\ calls[k].value.found <=> matching # {}
                /\ calls[k].value.found =>
                      \E i \in matching :
                          /\ \A j \in matching : i <= j
                          /\ calls[k].value.markerStart = defaultStyles[i].start
                          /\ calls[k].value.markerEnd = defaultStyles[i].end

\* detectFallback found the second style on a text with whitespace before the comment
C22_Witness ==
    /\ Len(calls) = 1
    /\ calls[1].fn = "detectFallback"
    /\ calls[1].value.found
    /\ calls[1].value.markerStart = defaultStyles[2].start
    /\ calls[1].arg[1] = SP

(***************************************************************************)
(* C23  insertComment with a template that holds the placeholder replaces  *)
(* the selection by the text before the placeholder followed by the text   *)
(* after it, nothing else, and puts the cursor where the placeholder was:  *)
(* on the original line plus the line breaks of the text before it, at     *)
(* the length of that text's last line, plus the original column when the  *)
(* text before has no line break.                                          *)
(***************************************************************************)
\* the run of insertComment recorded last
InsertCalled == Len(calls) = 1 /\ calls[1].fn \in {"insertComment", "insertCommentJs"}

TemplateBefore == Slice(settings.template, 0, IndexOf(settings.template, CursorTag, 0))
TemplateAfter ==
    SliceFrom(settings.template, IndexOf(settings.template, CursorTag, 0) + Len(CursorTag))

\* what the claim has insertComment do to the editor e
InsertedAsTemplate(e) ==
    LET lines == Split(TemplateBefore)
        cursor == GetCursor(e)
    IN  /\ doc = Replaced(e, TemplateBefore \o TemplateAfter, CursorFrom(e), CursorTo(e))
        /\ anchor = head
        /\ head = ClipPos(doc, Pos(cursor.line + Len(lines) - 1,
                                   IF Len(lines) = 1
                                   THEN cursor.ch + Len(lines[1])
                                   ELSE Len(lines[Len(lines)])))

C23_InsertsTemplateAtCursor ==
    (InsertCalled /\ calls[1].fn = "insertComment" /\ Includes(settings.template, CursorTag))
        => InsertedAsTemplate(calls[1].arg)

(***************************************************************************)
(* C24  Re-entrancy guard: the listener enters a cleanup toggle only with  *)
(* the guard clear, the guard is set exactly while a toggle the listener   *)
(* started is in progress (it is cleared when that toggle returns or       *)
(* throws), and at most one such toggle is in progress: the change event   *)
(* of the toggle's own edit starts no toggle inside it.                    *)
(***************************************************************************)
\* the frames of the calls in progress that the listener started
ListenerFrames == {i \in 1..Len(host.stack) : host.stack[i].by = "listener"}

C24_GuardHeldByOneToggle ==
    /\ Cardinality(ListenerFrames) <= 1
    /\ plugin.cleanupGuard <=> ListenerFrames # {}

\* the change event of a cleanup toggle's own edit reached the listener inside that toggle,
\* with shouldCleanup true, and the guard turned it away
C24_Witness ==
    /\ Len(host.stack) = 1
    /\ host.stack[1] = Frame("listener", "done")
    /\ plugin.cleanupGuard
    /\ Len(calls) = 2
    /\ calls[1].value /\ ~calls[2].value
    /\ Len(log) = 1 /\ Last.edits = 1
    /\ \E a \in Positions(doc), h \in Positions(doc) :
          shouldCleanup([doc |-> doc, anchor |-> a, head |-> h], settings.template)

(***************************************************************************)
(* C29  After marker sets were added, removed, enabled or disabled and     *)
(* registerMarkerCommands has run, the toggle commands registered are      *)
(* exactly the main command and one command for each set that exists and   *)
(* is enabled, and that command toggles with the set now at its index.     *)
(***************************************************************************)
\* registerMarkerCommands was the last thing to run
JustRegistered ==
    \/ calls = <<>>
    \/ \E n \in {Len(calls)} : n > 0 /\ calls[n].fn # "addMarkerSet"

\* the commands the settings call for
CommandsOfSettings ==
    {[id |-> 0, marker |-> NoMarkerSet]} \cup
    {[id |-> i, marker |-> [given |-> TRUE,
                            start |-> settings.additionalMarkers[i].start,
                            end |-> settings.additionalMarkers[i].end]] :
        i \in {j \in 1..Len(settings.additionalMarkers) :
                  settings.additionalMarkers[j].registerCommand}}

C29_CommandsFollowSettings == JustRegistered => host.commands = CommandsOfSettings

(***************************************************************************)
(* C27  isRegionCommented with a marker missing.  As stated: whenever the  *)
(* start or the end marker is empty, the result is the startsWith test of  *)
(* the trimmed text against the start marker, the end marker ignored.      *)
(* As the code has it: with an empty start marker the result is false      *)
(* whatever the end marker; with a start marker and an empty end marker    *)
(* the result is whether the trimmed text starts with the start marker.    *)
(***************************************************************************)
RegionCalled == calls # <<>> /\ calls[1].fn = "isRegionCommented"

C27_DegradesToStartOnly ==
    RegionCalled =>
        \A c \in {calls[1]} :
            (c.arg.start = <<>> \/ c.arg.end = <<>>) =>
                (c.value <=> StartsWith(Trim(c.arg.text), c.arg.start))

C27_EmptyStartNeverMatches ==
    RegionCalled =>
        \A c \in {calls[1]} :
            /\ c.value \in BOOLEAN
            /\ c.arg.start = <<>> => ~c.value
            /\ (c.arg.start # <<>> /\ c.arg.end = <<>>) =>
                   (c.value <=> StartsWith(Trim(c.arg.text), c.arg.start))

\* a text that ends with the end marker was tested with an empty start marker
C27_Witness ==
    /\ RegionCalled
    /\ calls[1].arg.start = <<>>
    /\ calls[1].arg.end # <<>>
    /\ EndsWith(Trim(calls[1].arg.text), calls[1].arg.end)
    /\ ~calls[1].value

(***************************************************************************)
(* C26  Without a marker set, toggleComment takes its markers from the     *)
(* template split at the first {cursor}: the start marker is the trimmed   *)
(* text before it, the end marker the trimmed text after it; a template    *)
(* without {cursor} is the start marker as a whole (trimmed, as every      *)
(* marker is) and the end marker is empty.  With a marker set, the markers *)
(* are those of the set and the template is not looked at.                 *)
(***************************************************************************)
\* {cursor} stands in the template at the 1-based index i
PlaceholderAt(template, i) ==
    /\ i + Len(CursorTag) - 1 <= Len(template)
    /\ SubSeq(template, i, i + Len(CursorTag) - 1) = CursorTag

FromTemplate(m, template) ==
    IF \A i \in 1..Len(template) : ~PlaceholderAt(template, i)
    THEN m.start = Trim(template) /\ m.end = <<>>
    ELSE \E i \in 1..Len(template) :
            /\ PlaceholderAt(template, i)
            /\ \A j \in 1..(i - 1) : ~PlaceholderAt(template, j)
            /\ m.start = Trim(SubSeq(template, 1, i - 1))
            /\ m.end = Trim(SubSeq(template, i + Len(CursorTag), Len(template)))

C26_MarkersFromTemplateOrSet ==
    \A k \in 1..Len(log) :
        IF log[k].markerSet.given
        THEN /\ log[k].markers.start = Trim(log[k].markerSet.start)
             /\ log[k].markers.end = Trim(log[k].markerSet.end)
        ELSE FromTemplate(log[k].markers, settings.template)

\* one toggle without a marker set and one with a marker set whose markers the template
\* does not give
C26_Witness ==
    /\ Len(log) = 2
    /\ ~log[1].markerSet.given
    /\ log[2].markerSet.given
    /\ log[1].markers # log[2].markers
    /\ log[2].markerSet.start # log[2].markers.start

(***************************************************************************)
(* C25  toggleComment keeps no state between invocations: an invocation    *)
(* writes no plugin field (settings, tracked command ids, cleanup guard),  *)
(* and what the n-th invocation does (its path, its edits, the positions   *)
(* it hands to the editor, the document and cursor it leaves) is what      *)
(* toggleComment does on the document, cursor, marker set and settings it  *)
(* found at entry, whatever the invocations before it were.                *)
(***************************************************************************)
\* the editor as the k-th invocation left it
EditorAfter(k) == IF k < Len(log) THEN log[k + 1].pre ELSE editor

\* the invocation that has just run did what toggleComment does on what it found at entry
ResultFromEntryState ==
    Called =>
        \A o \in {toggleComment(Last.pre, Last.markerSet, settings)} :
            /\ o.ed = editor
            /\ o.path = Last.path
            /\ o.handed = Last.handed
            /\ o.edits = Last.edits

SameEntrySameResult ==
    \A j \in 1..Len(log), k \in 1..Len(log) :
        (log[j].pre = log[k].pre /\ log[j].markerSet = log[k].markerSet) =>
            /\ EditorAfter(j) = EditorAfter(k)
            /\ log[j].path = log[k].path
            /\ log[j].handed = log[k].handed
            /\ log[j].edits = log[k].edits

StandsAt(str, m) == {i \in 0..Len(str) : Substr(str, i, Len(m)) = m}

\* the nearest marker of either kind that begins before the offset off is a start marker
StartNearestBehind(str, off, m) ==
    LET behind == {i \in StandsAt(str, m.start) \cup StandsAt(str, m.end) : i < off}
    IN  behind # {} /\ Greatest(behind) \in StandsAt(str, m.start)

\* the nearest marker of either kind that begins at the offset off or after it is an end marker
EndNearestAhead(str, off, m) ==
    LET ahead == {i \in StandsAt(str, m.start) \cup StandsAt(str, m.end) : i >= off}
    IN  ahead # {} /\ (CHOOSE i \in ahead : \A j \in ahead : i <= j) \in StandsAt(str, m.end)

\* an invocation with a bare cursor and markers that are not empty and differ
BareCursorDistinct(c) ==
    /\ c.pre.anchor = c.pre.head
    /\ c.markers.start # <<>>
    /\ c.markers.end # <<>>
    /\ c.markers.start # c.markers.end

C28_NearestMarkersDecide ==
    \A k \in 1..Len(log) :
        BareCursorDistinct(log[k]) =>
            (log[k].located.isComment <=>
                /\ StartNearestBehind(Join(log[k].pre.doc),
                                      PosToOffset(log[k].pre.doc, log[k].pre.head), log[k].markers)
                /\ EndNearestAhead(Join(log[k].pre.doc),
                                   PosToOffset(log[k].pre.doc, log[k].pre.head), log[k].markers))

\* the cursor stands between a start and an end marker with a further marker behind them
C28_Witness ==
    /\ Called
    /\ BareCursorDistinct(Last)
    /\ Last.located.isComment
    /\ Cardinality(StandsAt(Join(Last.pre.doc), Last.markers.start)
                     \cup StandsAt(Join(Last.pre.doc), Last.markers.end)) >= 3

(***************************************************************************)
(* C30  Whenever toggleComment sets a selection, the range it hands over   *)
(* is in document order: from is on an earlier line than to, or on the     *)
(* same line at a character not after it.  toggleComment sets a selection  *)
(* on the insert and on the uncomment path, when it was started on one.    *)
(***************************************************************************)
InOrder(from, to) == from.line < to.line \/ (from.line = to.line /\ from.ch <= to.ch)

\* the invocation called setSelection: its first two positions handed over are the range
SetsSelection(c) ==
    /\ c.path \in {"insert", "uncomment"}
    /\ c.pre.anchor # c.pre.head

C30_SelectionInOrder ==
    \A k \in 1..Len(log) :
        SetsSelection(log[k]) =>
            /\ Len(log[k].handed) >= 2
            /\ InOrder(log[k].handed[1], log[k].handed[2])

\* a selection over two lines was wrapped and the selection set after it was unwrapped again
C30_Witness ==
    /\ Len(log) = 2
    /\ SetsSelection(log[1]) /\ log[1].path = "insert"
    /\ log[1].handed[1].line < log[1].handed[2].line
    /\ SetsSelection(log[2]) /\ log[2].path = "uncomment"
    /\ log[2].handed[1] # log[2].handed[2]

=============================================================================
